---- MODULE Spec2Model ----
(***************************************************************************)
(* Model of the llm-pdf-go batch dispatchers.  The main object is the      *)
(* semaphore-gated dispatcher of design-ant/main.go: one goroutine per     *)
(* chunk, a buffered channel used as a counting semaphore, a retry loop    *)
(* with exponential backoff around analyzeChunk, an index-addressed write  *)
(* of the ChunkAnalysis under a mutex, a WaitGroup join and the fold of    *)
(* the token counts and costs.                                             *)
(*                                                                         *)
(* Costs are Go float64 values.  They are modelled bit-exactly (round to   *)
(* nearest, ties to even, 53-bit significand) for the non-negative normal  *)
(* range the program produces, so that sums taken in different orders can  *)
(* differ exactly where they differ in the program.                        *)
(***************************************************************************)
EXTENDS Integers, Sequences, FiniteSets, TLC

(***************************************************************************)
(* float64.  A non-negative double is 0 or m * 2^e with m odd; m is kept   *)
(* as its bits, least significant first, at most 53 of them.               *)
(***************************************************************************)
MantissaBits == 53

Zero == [m |-> <<>>, e |-> 0]

Zeros(k) == [j \in 1..k |-> 0]

Min(a, b) == IF a <= b THEN a ELSE b

Max(a, b) == IF a >= b THEN a ELSE b

\* the bits of an int 0 <= n < 2^31
BitsOf(n) ==
  LET len == Cardinality({k \in 0..30 : 2^k <= n})
  IN  [j \in 1..len |-> (n \div 2^(j - 1)) % 2]

Bit(a, j) == IF j \in 1..Len(a) THEN a[j] ELSE 0

\* bits without the zero bits at the high end
StripHigh(a) ==
  LET ones == {j \in 1..Len(a) : a[j] = 1}
  IN  IF ones = {} THEN <<>>
      ELSE SubSeq(a, 1, CHOOSE j \in ones : \A k \in ones : k <= j)

LowZeros(a) ==
  LET ones == {j \in 1..Len(a) : a[j] = 1}
  IN  IF ones = {} THEN Len(a)
      ELSE (CHOOSE j \in ones : \A k \in ones : j <= k) - 1

\* additions carry over limbs of LimbBits bits
LimbBits == 8

\* limb k (from 0) of the bits a
Limb(a, k) ==
  LET b == LimbBits * k
  IN  Bit(a, b + 1) + 2 * Bit(a, b + 2) + 4 * Bit(a, b + 3) + 8 * Bit(a, b + 4)
      + 16 * Bit(a, b + 5) + 32 * Bit(a, b + 6) + 64 * Bit(a, b + 7)
      + 128 * Bit(a, b + 8)

\* limbs k..n-1 of a + b, with carry c into limb k
RECURSIVE SumLimbs(_, _, _, _, _)
SumLimbs(a, b, k, c, n) ==
  IF k = n THEN <<>>
  ELSE LET s == Limb(a, k) + Limb(b, k) + c
       IN  <<s % 2^LimbBits>> \o SumLimbs(a, b, k + 1, s \div 2^LimbBits, n)

AddBits(a, b) ==
  LET n     == (Max(Len(a), Len(b)) \div LimbBits) + 1
      limbs == SumLimbs(a, b, 0, 0, n)
  IN  StripHigh([j \in 1..(LimbBits * n) |->
                   (limbs[((j - 1) \div LimbBits) + 1]
                      \div 2^((j - 1) % LimbBits)) % 2])

RECURSIVE MulBits(_, _)
MulBits(a, b) ==
  IF a = <<>> \/ b = <<>>
  THEN <<>>
  ELSE LET rest    == MulBits(a, Tail(b))
           shifted == IF rest = <<>> THEN <<>> ELSE <<0>> \o rest
       IN  IF Head(b) = 1 THEN AddBits(a, shifted) ELSE shifted

\* the double whose value is exactly a * 2^e (a has at most 53 significant bits)
Canon(a, e) ==
  IF a = <<>> THEN Zero
  ELSE LET z == LowZeros(a)
       IN  [m |-> SubSeq(a, z + 1, Len(a)), e |-> e + z]

\* a + 1 for MantissaBits bits a
Increment(a) ==
  LET zeros == {j \in 1..Len(a) : a[j] = 0}
  IN  IF zeros = {} THEN Zeros(Len(a)) \o <<1>>
      ELSE LET z == CHOOSE j \in zeros : \A k \in zeros : j <= k
           IN  [j \in 1..Len(a) |-> IF j < z THEN 0 ELSE IF j = z THEN 1 ELSE a[j]]

\* a * 2^e (plus a positive fraction of 2^e when sticky) rounded to nearest,
\* ties to even; a has no high zero bit
RoundBits(a, e, sticky) ==
  IF Len(a) <= MantissaBits
  THEN Canon(a, e)
  ELSE LET d     == Len(a) - MantissaBits
           kept  == SubSeq(a, d + 1, Len(a))
           guard == a[d]
           st    == sticky \/ \E j \in 1..(d - 1) : a[j] = 1
           up    == guard = 1 /\ (st \/ kept[1] = 1)
       IN  Canon(IF up THEN Increment(kept) ELSE kept, e + d)

\* float64(n) for an int n >= 0 (exact below 2^53)
FromInt(n) == Canon(BitsOf(n), 0)

\* the double k * 2^j for a small integer k
Dbl(k, j) == Canon(BitsOf(k), j)

\* the quotient is developed by DivDigits digits of DigitBits bits after the
\* point: enough for the 53 bits, the guard bit and more when d < 2^20
DigitBits == 10

DivDigits == 8

\* the digits t..DivDigits of r / d after the point, and the last remainder
RECURSIVE DivFrom(_, _, _)
DivFrom(r, d, t) ==
  IF t > DivDigits
  THEN [q |-> <<>>, r |-> r]
  ELSE LET r2   == r * 2^DigitBits
           rest == DivFrom(r2 % d, d, t + 1)
       IN  [q |-> <<r2 \div d>> \o rest.q, r |-> rest.r]

\* float64(n) / float64(d) for ints n >= 0, 0 < d < 2^20
FDivInt(n, d) ==
  IF n = 0 THEN Zero
  ELSE LET res  == DivFrom(n % d, d, 1)
           w    == DigitBits * DivDigits
           frac == [j \in 1..w |->
                      (res.q[DivDigits - ((j - 1) \div DigitBits)]
                         \div 2^((j - 1) % DigitBits)) % 2]
       IN  RoundBits(StripHigh(frac \o BitsOf(n \div d)), -w, res.r # 0)

FMul(x, y) ==
  IF x = Zero \/ y = Zero THEN Zero
  ELSE RoundBits(MulBits(x.m, y.m), x.e + y.e, FALSE)

FAdd(x, y) ==
  IF x = Zero THEN y
  ELSE IF y = Zero THEN x
  ELSE LET e == Min(x.e, y.e)
       IN  RoundBits(AddBits(Zeros(x.e - e) \o x.m, Zeros(y.e - e) \o y.m),
                     e, FALSE)

(***************************************************************************)
(* design-ant: configuration, price table, chunks.                         *)
(***************************************************************************)
DefaultModel == "claude-3-5-haiku-20241022"

Pricing(in, out) == [InputPricePerMTokens |-> in, OutputPricePerMTokens |-> out]

\* the literal of config.go: 0.25 / 1.25, 0.25 / 1.25, 3.00 / 15.00, 15.00 / 75.00
SrcModelPricing ==
  [n \in {"claude-3-5-haiku-20241022", "claude-3-haiku-20240307",
          "claude-3-5-sonnet-20241022", "claude-3-opus-20240229"} |->
     CASE n = "claude-3-5-haiku-20241022"  -> Pricing(Dbl(1, -2), Dbl(5, -2))
       [] n = "claude-3-haiku-20240307"    -> Pricing(Dbl(1, -2), Dbl(5, -2))
       [] n = "claude-3-5-sonnet-20241022" -> Pricing(Dbl(3, 0), Dbl(15, 0))
       [] n = "claude-3-opus-20240229"     -> Pricing(Dbl(15, 0), Dbl(75, 0))]

SrcMaxConcurrent == 4

SrcMaxRetries == 3

SrcChunkSize == 1

\* retryDelay, in seconds
retryDelay == 2

PerMillion == 1000000

\* the chunks of a document of totalPages pages when every extraction succeeds:
\* StartPage and EndPage are 0-indexed and inclusive
RECURSIVE SplitFrom(_, _, _)
SplitFrom(startPage, size, pages) ==
  IF startPage >= pages THEN <<>>
  ELSE LET endPage == Min(startPage + size, pages)
       IN  <<[StartPage |-> startPage, EndPage |-> endPage - 1]>>
             \o SplitFrom(startPage + size, size, pages)

\* chunks of full size, the last one not cut at the end of the document
splitPDFIntoChunks_NoClamp(size, pages) ==
  [k \in 1..((pages + size - 1) \div size) |->
     [StartPage |-> (k - 1) * size, EndPage |-> k * size - 1]]

\* a loop that tests its condition only after the first chunk
splitPDFIntoChunks_DoWhile(size, pages) ==
  <<[StartPage |-> 0, EndPage |-> Min(size, pages) - 1]>> \o SplitFrom(size, size, pages)

splitPDFIntoChunks(size, pages) == SplitFrom(0, size, pages)

(***************************************************************************)
(* The remote service, as analyzeChunk sees it.  A return of analyzeChunk  *)
(* is (analysis, inputTokens, outputTokens, err).  Texts and error         *)
(* messages are sequences of string pieces, so that strings.Contains is a  *)
(* test on the pieces; the empty sequence is the empty string / nil error. *)
(***************************************************************************)
NoText == <<>>

NoErr == <<>>

Return(answer, in, out, e) ==
  [analysis |-> answer, inputTokens |-> in, outputTokens |-> out, err |-> e]

\* fmt.Errorf("API error (status %d): %s", resp.StatusCode, string(body))
APIError(status, body) == <<"API error (status ", status, "): ">> \o body

RequestId(pageNumber, attempt) ==
  <<"req_", ToString(pageNumber), "_", ToString(attempt)>>

RateLimitError(pageNumber, attempt) ==
  Return(NoText, 0, 0,
         APIError("429", <<"rate_limit", "_error">>
                                  \o RequestId(pageNumber, attempt)))

\* an analyzeChunk that bills a request the service has rejected
ServerError_Billed(pageNumber, attempt) ==
  Return(NoText, 100, 50,
         APIError("500", <<"api_error">> \o RequestId(pageNumber, attempt)))

ServerError(pageNumber, attempt) ==
  Return(NoText, 0, 0,
         APIError("500", <<"api_error">> \o RequestId(pageNumber, attempt)))

\* the answers with status 200: a text with its usage, or no content block
Answers(pageNumber) ==
  { Return(<<"# Page ", ToString(pageNumber)>>, 100, 50, NoErr),
    Return(NoText, 200, 100, NoErr) }

\* the answer of a test double that follows a script: the kinds of its
\* answers to the successive attempts, "ok" once the script is used up; a
\* success bills more tokens on each attempt
ScriptedUsage(a) == <<100 * (a + 1), 50 * (a + 1)>>

Scripted(kinds, pageNumber, a) ==
  LET kind == IF a + 1 <= Len(kinds) THEN kinds[a + 1] ELSE "ok"
  IN  CASE kind = "rate_limit" -> RateLimitError(pageNumber, a)
        [] kind = "server"     -> ServerError(pageNumber, a)
        [] OTHER -> Return(<<"# Page ", ToString(pageNumber)>>,
                           ScriptedUsage(a)[1], ScriptedUsage(a)[2], NoErr)

\* the token counts a goroutine can hold: 0 and those of the answers
TokenCounts ==
  {0} \cup {r.inputTokens : r \in Answers(1)} \cup {r.outputTokens : r \in Answers(1)}
      \cup {ScriptedUsage(k)[1] : k \in 0..(SrcMaxRetries - 1)}
      \cup {ScriptedUsage(k)[2] : k \in 0..(SrcMaxRetries - 1)}

\* a price entry that is not in the table of config.go: 1.0 / 2.0
TestModel == "test-model"

TestPricing == Pricing(Dbl(1, 0), Dbl(1, 1))

\* model names the table of config.go does not have
UnknownModels == {"", "claude-3-5-haiku", "claude-4"}

\* the costs with the two prices taken for one another
UnitCosts_PricesSwapped(in, out, pricing) ==
  LET inputCost  == FMul(FDivInt(in, PerMillion), pricing.OutputPricePerMTokens)
      outputCost == FMul(FDivInt(out, PerMillion), pricing.InputPricePerMTokens)
  IN  [InputCost |-> inputCost, OutputCost |-> outputCost,
       TotalCost |-> FAdd(inputCost, outputCost)]

\* inputCost, outputCost and their sum, as the goroutine computes them
UnitCosts(in, out, pricing) ==
  LET inputCost  == FMul(FDivInt(in, PerMillion), pricing.InputPricePerMTokens)
      outputCost == FMul(FDivInt(out, PerMillion), pricing.OutputPricePerMTokens)
  IN  [InputCost |-> inputCost, OutputCost |-> outputCost,
       TotalCost |-> FAdd(inputCost, outputCost)]

\* the (inputTokens, outputTokens) a goroutine can hold
TokenUsages ==
  {<<0, 0>>} \cup {<<r.inputTokens, r.outputTokens>> : r \in Answers(1)}
    \cup {ScriptedUsage(k) : k \in 0..(SrcMaxRetries - 1)}

\* UnitCosts on the values the model uses, evaluated once
CostCache ==
  [usage \in TokenUsages,
   pricing \in {SrcModelPricing[n] : n \in DOMAIN SrcModelPricing} \cup {TestPricing}
     |-> UnitCosts(usage[1], usage[2], pricing)]

Contains(msg, piece) == \E j \in 1..Len(msg) : msg[j] = piece

\* strings.Contains(err.Error(), "rate_limit") || strings.Contains(err.Error(), "429")
IsRateLimit(e) == Contains(e, "rate_limit") \/ Contains(e, "429")

(***************************************************************************)
(* State of main and of its goroutines.                                    *)
(***************************************************************************)
VARIABLES
  maxConcurrent,  \* capacity of the semaphore channel
  maxRetries,     \* attempts of the retry loop
  chunkSize,      \* pages per chunk
  config,         \* [ModelName]
  ModelPricing,   \* the price table (a package-level map)
  totalPages,
  chunks,         \* sequence of [StartPage, EndPage]
  flaky,          \* the indices whose requests the service may reject
  env,            \* what main finds: arguments, credential, document
  script,         \* per index: the kinds of answers a test double gives, or <<>>
  mainPC,         \* "setup", "spawn", "wait", "fold", "done", "fatal"
  i,              \* index of the range loop that starts the goroutines
  results,        \* sequence of ChunkAnalysis, results[index + 1] in the model
  semaphore,      \* number of elements in the channel
  mu,             \* TRUE when the mutex is locked
  wg,             \* the WaitGroup counter
  pc,             \* per goroutine: "idle", "acquire", "call", "sleep", "lock",
                  \* "write", "release", "exit", "done"
  attempt, analysis, inputTokens, outputTokens, err,  \* locals of a goroutine
  trace,          \* history: the returns of analyzeChunk, per goroutine
  waits,          \* history: the backoff waits in seconds, per goroutine
  fullResult,     \* the FullAnalysisResult, once built
  folds,          \* how many times the totals were accumulated
  jsonFile,       \* "none", "saved", or "warning" when the save failed
  exitCode,       \* <<>> while the process runs, then <<0>> or <<1>>
  pageSlice,      \* page-summary program: pages, the slice of PageData
  text,           \* page-summary program: the text local to each goroutine
  requests,       \* page-summary program: the prompts sent to the Gemini API
  summary,        \* page-summary program: the answer of the Gemini API
  maxPages,       \* wave program: the pages processed, at most 10
  batchStart,     \* wave program: first page index of the current wave
  batchEnd,       \* wave program: one past its last page index
  pageResult,     \* wave program: the PageResult local to each goroutine
  writers,        \* history: per slot of results, the goroutines that wrote it
  events          \* history: the progress lines printed, per goroutine

vars == <<maxConcurrent, maxRetries, chunkSize, config, ModelPricing, totalPages, chunks,
          flaky, env, script, mainPC, i, results, semaphore, mu, wg, pc, attempt,
          analysis, inputTokens, outputTokens, err, trace, waits, fullResult,
          folds, jsonFile, exitCode, pageSlice, text, requests, summary,
          maxPages, batchStart, batchEnd, pageResult, writers, events>>

params == <<maxConcurrent, maxRetries, chunkSize, config, ModelPricing, totalPages, chunks,
            flaky, env, script>>

\* what only the end of main changes
process == <<folds, jsonFile, exitCode>>

\* what only the page-summary program changes
summaryVars == <<pageSlice, text, requests, summary>>

\* what only the wave program changes
waveVars == <<maxPages, batchStart, batchEnd, pageResult>>

locals == <<attempt, analysis, inputTokens, outputTokens, err>>

Indices == 0..(Len(chunks) - 1)

\* a lookup without the default: the zero value of the map
GetPricing_ZeroValue(modelName) ==
  IF modelName \in DOMAIN ModelPricing
  THEN ModelPricing[modelName]
  ELSE Pricing(Zero, Zero)

\* GetPricing of config.go
GetPricing(modelName) ==
  IF modelName \in DOMAIN ModelPricing
  THEN ModelPricing[modelName]
  ELSE ModelPricing[DefaultModel]

\* the zero value of ChunkAnalysis (ProcessingTime and Timestamp left out)
ZeroChunkAnalysis ==
  [ChunkNumber |-> 0, StartPage |-> 0, EndPage |-> 0, Analysis |-> NoText,
   InputTokens |-> 0, OutputTokens |-> 0, InputCost |-> Zero,
   OutputCost |-> Zero, TotalCost |-> Zero, Error |-> NoErr]

NoResult == [built |-> FALSE]

\* what analyzeChunk can return to goroutine index on its current attempt
Returns(index) ==
  LET pageNumber == chunks[index + 1].StartPage + 1
  IN  IF script[index] # <<>>
      THEN {Scripted(script[index], pageNumber, attempt[index])}
      ELSE IF index \in flaky
      THEN Answers(pageNumber)
             \cup {RateLimitError(pageNumber, attempt[index]),
                   ServerError(pageNumber, attempt[index])}
      ELSE {Return(<<"# Page ", ToString(pageNumber)>>, 100, 50, NoErr)}

\* a readable document of the given number of pages, run with its path as
\* argument and the credential set
Document(pages) ==
  [args |-> TRUE, apiKey |-> TRUE, exists |-> TRUE, countFails |-> FALSE,
   pages |-> pages, tempDirFails |-> FALSE, unreadable |-> {}]

\* the environments in which one step of the set-up fails, for a document of
\* two pages; unreadable holds the pages that api.ExtractPages rejects
FaultyEnvs ==
  { [Document(2) EXCEPT !.args = FALSE],
    [Document(2) EXCEPT !.apiKey = FALSE],
    [Document(2) EXCEPT !.exists = FALSE],
    [Document(2) EXCEPT !.countFails = TRUE],
    [Document(2) EXCEPT !.tempDirFails = TRUE],
    [Document(2) EXCEPT !.unreadable = {1}],
    [Document(2) EXCEPT !.unreadable = {2}] }

\* no test double: the service answers as it likes
NoScript(pages) == [x \in 0..(pages - 1) |-> <<>>]

\* a main at the given position before its first statement, for a chunk size
InitAt(start, size, e, gate, retries, model, table, fl, sc) ==
  /\ maxConcurrent = gate
  /\ maxRetries = retries
  /\ chunkSize = size
  /\ config = [ModelName |-> model]
  /\ ModelPricing = table
  /\ totalPages = 0
  /\ chunks = <<>>
  /\ flaky = fl
  /\ env = e
  /\ script = sc
  /\ mainPC = start
  /\ i = 0
  /\ results = <<>>
  /\ semaphore = 0
  /\ mu = FALSE
  /\ wg = 0
  /\ pc = <<>>
  /\ attempt = <<>>
  /\ analysis = <<>>
  /\ inputTokens = <<>>
  /\ outputTokens = <<>>
  /\ err = <<>>
  /\ trace = <<>>
  /\ waits = <<>>
  /\ fullResult = NoResult
  /\ folds = 0
  /\ jsonFile = "none"
  /\ exitCode = <<>>
  /\ pageSlice = <<>>
  /\ text = <<>>
  /\ requests = <<>>
  /\ summary = NoText
  /\ maxPages = 0
  /\ batchStart = 0
  /\ batchEnd = 0
  /\ pageResult = <<>>
  /\ writers = <<>>
  /\ events = <<>>

\* main of design-ant before its first statement, for a chunk size
InitWithSize(size, e, gate, retries, model, table, fl, sc) ==
  InitAt("setup", size, e, gate, retries, model, table, fl, sc)

\* main before its first statement: chunkSize := 1
InitWithEnv(e, gate, retries, model, table, fl, sc) ==
  InitWithSize(SrcChunkSize, e, gate, retries, model, table, fl, sc)

InitWith(pages, gate, retries, model, table, fl) ==
  InitWithEnv(Document(pages), gate, retries, model, table, fl, NoScript(pages))

\* documents of up to MaxPages pages, any request of which may fail
MaxPages == 2

\* the program as written: gate 4, 3 attempts, the cheapest model; either a
\* short document, or one page more than the gate admits with one flaky page
Init ==
  \/ \E pages \in (0..MaxPages) \cup {SrcMaxConcurrent + 1} :
       InitWith(pages, SrcMaxConcurrent, SrcMaxRetries, DefaultModel,
                SrcModelPricing,
                IF pages <= MaxPages THEN 0..(pages - 1) ELSE {0})
  \/ \E e \in FaultyEnvs :
       InitWithEnv(e, SrcMaxConcurrent, SrcMaxRetries, DefaultModel,
                   SrcModelPricing, {}, NoScript(e.pages))

\* gate capacities of the harness
MaxGate == 2

\* the dispatcher under a harness: the gate capacity and the price entry are
\* chosen by the caller; the last page is the flaky one
InitHarness ==
  \E pages \in 0..MaxPages, gate \in 1..MaxGate,
     model \in {DefaultModel, TestModel, "claude-4"} :
    InitWith(pages, gate, SrcMaxRetries, model,
             [n \in DOMAIN SrcModelPricing \cup {TestModel} |->
                IF n = TestModel THEN TestPricing ELSE SrcModelPricing[n]],
             {pages - 1} \cap (0..(pages - 1)))

(***************************************************************************)
(* main: the set-up, the range loop, the join, the fold, the report.       *)
(***************************************************************************)
\* a set-up that goes on when pages cannot be extracted
SetupError_IgnoresSplit(e) ==
  IF ~e.args THEN "Usage"
  ELSE IF ~e.apiKey THEN "ANTHROPIC_API_KEY not found"
  ELSE IF ~e.exists THEN "PDF file not found"
  ELSE IF e.countFails THEN "Error getting page count"
  ELSE IF e.tempDirFails THEN "Error creating temp directory"
  ELSE ""

\* the step of the set-up that calls log.Fatal, "" when none does
SetupError(e) ==
  IF ~e.args THEN "Usage"
  ELSE IF ~e.apiKey THEN "ANTHROPIC_API_KEY not found"
  ELSE IF ~e.exists THEN "PDF file not found"
  ELSE IF e.countFails THEN "Error getting page count"
  ELSE IF e.tempDirFails THEN "Error creating temp directory"
  ELSE IF \E k \in 1..Len(splitPDFIntoChunks(chunkSize, e.pages)) :
            LET chunk == splitPDFIntoChunks(chunkSize, e.pages)[k]
            IN  \E p \in (chunk.StartPage + 1)..(chunk.EndPage + 1) : p \in e.unreadable
       THEN "Error splitting PDF"
  ELSE ""

\* main up to the range loop: log.Fatal ends the process with exit code 1
Setup ==
  /\ mainPC = "setup"
  /\ IF SetupError(env) # ""
     THEN /\ mainPC' = "fatal"
          /\ exitCode' = <<1>>
          /\ totalPages' = IF SetupError(env) \in {"Error creating temp directory",
                                                    "Error splitting PDF"}
                           THEN env.pages ELSE totalPages
          /\ UNCHANGED <<chunks, results, pc, locals, trace, waits, writers, events>>
     ELSE LET cs == splitPDFIntoChunks(chunkSize, env.pages)
              ix == 0..(Len(cs) - 1)
          IN  /\ mainPC' = "spawn"
              /\ totalPages' = env.pages
              /\ chunks' = cs
              /\ results' = [k \in 1..Len(cs) |-> ZeroChunkAnalysis]
              /\ writers' = [k \in 1..Len(cs) |-> <<>>]
              /\ events' = [x \in ix |-> <<>>]
              /\ pc' = [x \in ix |-> "idle"]
              /\ attempt' = [x \in ix |-> 0]
              /\ analysis' = [x \in ix |-> NoText]
              /\ inputTokens' = [x \in ix |-> 0]
              /\ outputTokens' = [x \in ix |-> 0]
              /\ err' = [x \in ix |-> NoErr]
              /\ trace' = [x \in ix |-> <<>>]
              /\ waits' = [x \in ix |-> <<>>]
              /\ UNCHANGED exitCode
  /\ UNCHANGED <<maxConcurrent, maxRetries, chunkSize, config, ModelPricing, flaky,
                 env, script, i, semaphore, mu, wg, fullResult, folds, jsonFile,
                 summaryVars, waveVars>>

\* one iteration of "for i, chunk := range chunks": wg.Add(1); go func...
Spawn ==
  /\ mainPC = "spawn"
  /\ i < Len(chunks)
  /\ wg' = wg + 1
  /\ pc' = [pc EXCEPT ![i] = "acquire"]
  /\ i' = i + 1
  /\ UNCHANGED <<params, summaryVars, waveVars, writers, events, process, mainPC, results, semaphore, mu, locals, trace, waits,
                 fullResult>>

\* the range loop ends
SpawnDone ==
  /\ mainPC = "spawn"
  /\ i >= Len(chunks)
  /\ mainPC' = "wait"
  /\ UNCHANGED <<params, summaryVars, waveVars, writers, events, process, i, results, semaphore, mu, wg, pc, locals, trace,
                 waits, fullResult>>

\* a join that does not wait for the counter
CounterZero_NoWait == TRUE

\* wg.Wait() can return
CounterZero == wg = 0

\* wg.Wait() returns
Wait ==
  /\ mainPC = "wait"
  /\ CounterZero
  /\ mainPC' = "fold"
  /\ UNCHANGED <<params, summaryVars, waveVars, writers, events, process, i, results, semaphore, mu, wg, pc, locals, trace,
                 waits, fullResult>>

RECURSIVE SumInt(_, _, _)
SumInt(rs, field, k) ==
  IF k > Len(rs) THEN 0 ELSE rs[k][field] + SumInt(rs, field, k + 1)

\* "for _, result := range results { x += result.field }" from x = acc
RECURSIVE FoldFloat(_, _, _, _)
FoldFloat(rs, field, k, acc) ==
  IF k > Len(rs) THEN acc
  ELSE FoldFloat(rs, field, k + 1, FAdd(acc, rs[k][field]))

\* a report whose TotalCost is accumulated from the chunks' TotalCost
BuildFullResult_FoldsTotalCost(rs) ==
  LET chunkInputTokens  == SumInt(rs, "InputTokens", 1)
      chunkOutputTokens == SumInt(rs, "OutputTokens", 1)
      chunkInputCost    == FoldFloat(rs, "InputCost", 1, Zero)
      chunkOutputCost   == FoldFloat(rs, "OutputCost", 1, Zero)
  IN  [built |-> TRUE,
       TotalPages |-> totalPages,
       TotalChunks |-> Len(chunks),
       Chunks |-> rs,
       TotalInputTokens |-> chunkInputTokens,
       TotalOutputTokens |-> chunkOutputTokens,
       TotalInputCost |-> chunkInputCost,
       TotalOutputCost |-> chunkOutputCost,
       TotalCost |-> FoldFloat(rs, "TotalCost", 1, Zero)]

\* totals kept in accumulators that outlive one run of the accumulation
BuildFullResult_Accumulates(rs) ==
  LET before == IF fullResult.built THEN fullResult
                ELSE [TotalInputTokens |-> 0, TotalOutputTokens |-> 0,
                      TotalInputCost |-> Zero, TotalOutputCost |-> Zero]
      chunkInputTokens  == before.TotalInputTokens + SumInt(rs, "InputTokens", 1)
      chunkOutputTokens == before.TotalOutputTokens + SumInt(rs, "OutputTokens", 1)
      chunkInputCost    == FoldFloat(rs, "InputCost", 1, before.TotalInputCost)
      chunkOutputCost   == FoldFloat(rs, "OutputCost", 1, before.TotalOutputCost)
  IN  [built |-> TRUE,
       TotalPages |-> totalPages,
       TotalChunks |-> Len(chunks),
       Chunks |-> rs,
       TotalInputTokens |-> chunkInputTokens,
       TotalOutputTokens |-> chunkOutputTokens,
       TotalInputCost |-> chunkInputCost,
       TotalOutputCost |-> chunkOutputCost,
       TotalCost |-> FAdd(chunkInputCost, chunkOutputCost)]

\* a report that leaves out the units that failed
BuildFullResult_DropsFailed(rs) ==
  LET chunkInputTokens  == SumInt(rs, "InputTokens", 1)
      chunkOutputTokens == SumInt(rs, "OutputTokens", 1)
      chunkInputCost    == FoldFloat(rs, "InputCost", 1, Zero)
      chunkOutputCost   == FoldFloat(rs, "OutputCost", 1, Zero)
  IN  [built |-> TRUE,
       TotalPages |-> totalPages,
       TotalChunks |-> Len(chunks),
       Chunks |-> SelectSeq(rs, LAMBDA r : r.Error = NoErr),
       TotalInputTokens |-> chunkInputTokens,
       TotalOutputTokens |-> chunkOutputTokens,
       TotalInputCost |-> chunkInputCost,
       TotalOutputCost |-> chunkOutputCost,
       TotalCost |-> FAdd(chunkInputCost, chunkOutputCost)]

\* totalInputTokens, totalOutputTokens, totalInputCost, totalOutputCost and
\* the FullAnalysisResult literal
BuildFullResult(rs) ==
  LET chunkInputTokens  == SumInt(rs, "InputTokens", 1)
      chunkOutputTokens == SumInt(rs, "OutputTokens", 1)
      chunkInputCost    == FoldFloat(rs, "InputCost", 1, Zero)
      chunkOutputCost   == FoldFloat(rs, "OutputCost", 1, Zero)
  IN  [built |-> TRUE,
       TotalPages |-> totalPages,
       TotalChunks |-> Len(chunks),
       Chunks |-> rs,
       TotalInputTokens |-> chunkInputTokens,
       TotalOutputTokens |-> chunkOutputTokens,
       TotalInputCost |-> chunkInputCost,
       TotalOutputCost |-> chunkOutputCost,
       TotalCost |-> FAdd(chunkInputCost, chunkOutputCost)]

\* an exit code that tells of failed units and of a report not saved
MainReturns_FailsOnError(rs, saved) ==
  IF saved /\ \A k \in 1..Len(rs) : rs[k].Error = NoErr THEN <<0>> ELSE <<1>>

\* main returns after the summary and the save, whatever the results hold and
\* whether the report was saved: the process ends with exit code 0
MainReturns(rs, saved) == <<0>>

\* the totals and the FullAnalysisResult; the report is saved, or a warning
\* is logged when it cannot be; main returns
Aggregate ==
  /\ mainPC = "fold"
  /\ fullResult' = BuildFullResult(results)
  /\ folds' = folds + 1
  /\ \E saved \in BOOLEAN :
       /\ jsonFile' = IF saved THEN "saved" ELSE "warning"
       /\ exitCode' = MainReturns(results, saved)
  /\ mainPC' = "done"
  /\ UNCHANGED <<params, summaryVars, waveVars, writers, events, i, results, semaphore, mu, wg, pc, locals, trace, waits>>

\* how many times a harness runs the accumulation over the same results
MaxFolds == 2

\* a harness runs the accumulation of the totals again
Reaggregate ==
  /\ mainPC = "done"
  /\ folds < MaxFolds
  /\ fullResult' = BuildFullResult(results)
  /\ folds' = folds + 1
  /\ UNCHANGED <<params, summaryVars, waveVars, writers, events, mainPC, i, results, semaphore, mu, wg, pc, locals, trace,
                 waits, jsonFile, exitCode>>

(***************************************************************************)
(* The goroutine of chunk index.                                           *)
(***************************************************************************)
\* a send that never blocks (an unbuffered gate check left out)
CanSend_NeverBlocks == TRUE

\* a gate that does not count the goroutines sleeping in backoff
CanSend_SleepersFree ==
  semaphore - Cardinality({x \in DOMAIN pc : pc[x] = "sleep"}) < maxConcurrent

\* a gate that admits one goroutine less than its capacity
CanSend_OneSlotShort == semaphore < maxConcurrent - 1

\* a send on the buffered channel can proceed
CanSend == semaphore < maxConcurrent

\* semaphore <- struct{}{} : blocks while the channel is full; then the
\* line "Processing page" is printed
Acquire(index) ==
  /\ pc[index] = "acquire"
  /\ CanSend
  /\ semaphore' = semaphore + 1
  /\ events' = [events EXCEPT ![index] = Append(@, "started")]
  /\ pc' = [pc EXCEPT ![index] = "call"]
  /\ UNCHANGED <<params, summaryVars, waveVars, writers, process, mainPC, i, results, mu, wg, locals, trace, waits,
                 fullResult>>

\* a loop without the break on success
AfterReturn_NoBreak(r, a) ==
  IF r.err = NoErr \/ IsRateLimit(r.err)
  THEN IF a < maxRetries - 1
       THEN [pc |-> "sleep", attempt |-> a]
       ELSE [pc |-> "lock", attempt |-> a + 1]
  ELSE [pc |-> "lock", attempt |-> a]

\* a loop that gives up on the first rate-limit error
AfterReturn_NoRetry(r, a) == [pc |-> "lock", attempt |-> a]

\* a loop that retries every error
AfterReturn_RetryAll(r, a) ==
  IF r.err = NoErr THEN [pc |-> "lock", attempt |-> a]
  ELSE IF a < maxRetries - 1
       THEN [pc |-> "sleep", attempt |-> a]
       ELSE [pc |-> "lock", attempt |-> a + 1]

\* a goroutine that returns on a permanent error without recording it
AfterReturn_ReturnOnError(r, a) ==
  IF r.err = NoErr THEN [pc |-> "lock", attempt |-> a]
  ELSE IF IsRateLimit(r.err)
       THEN IF a < maxRetries - 1
            THEN [pc |-> "sleep", attempt |-> a]
            ELSE [pc |-> "lock", attempt |-> a + 1]
       ELSE [pc |-> "release", attempt |-> a]

\* a loop that makes one attempt less than maxRetries
AfterReturn_OneAttemptShort(r, a) ==
  IF r.err = NoErr THEN [pc |-> "lock", attempt |-> a]
  ELSE IF IsRateLimit(r.err)
       THEN IF a < maxRetries - 2
            THEN [pc |-> "sleep", attempt |-> a]
            ELSE [pc |-> "lock", attempt |-> a + 1]
       ELSE [pc |-> "lock", attempt |-> a]

\* a loop that, once it has retried, retries every error
AfterReturn_RetryAllOnceRetrying(r, a) ==
  IF r.err = NoErr THEN [pc |-> "lock", attempt |-> a]
  ELSE IF IsRateLimit(r.err) \/ a > 0
       THEN IF a < maxRetries - 1
            THEN [pc |-> "sleep", attempt |-> a]
            ELSE [pc |-> "lock", attempt |-> a + 1]
       ELSE [pc |-> "lock", attempt |-> a]

\* a loop that sleeps after every rate-limit error, the last attempt included
AfterReturn_SleepsAfterLast(r, a) ==
  IF r.err = NoErr THEN [pc |-> "lock", attempt |-> a]
  ELSE IF IsRateLimit(r.err)
       THEN [pc |-> "sleep", attempt |-> a]
       ELSE [pc |-> "lock", attempt |-> a]

\* where the retry loop goes after a return r of analyzeChunk on attempt a:
\* "lock" with the attempt counter as the loop leaves it, or "sleep"
AfterReturn(r, a) ==
  IF r.err = NoErr THEN [pc |-> "lock", attempt |-> a]
  ELSE IF IsRateLimit(r.err)
       THEN IF a < maxRetries - 1
            THEN [pc |-> "sleep", attempt |-> a]
            ELSE [pc |-> "lock", attempt |-> a + 1]
       ELSE [pc |-> "lock", attempt |-> a]

\* a backoff that does not grow
WaitTime_Constant(a) == retryDelay

\* retryDelay * time.Duration(1<<attempt)
WaitTime(a) == retryDelay * 2^a

\* analyzeChunk returns and the loop body runs up to the sleep or out of the loop
AnalyzeReturn(index) ==
  /\ pc[index] = "call"
  /\ \E r \in Returns(index) :
       LET to == AfterReturn(r, attempt[index])
       IN  /\ analysis' = [analysis EXCEPT ![index] = r.analysis]
           /\ inputTokens' = [inputTokens EXCEPT ![index] = r.inputTokens]
           /\ outputTokens' = [outputTokens EXCEPT ![index] = r.outputTokens]
           /\ err' = [err EXCEPT ![index] = r.err]
           /\ trace' = [trace EXCEPT ![index] = Append(@, r)]
           /\ pc' = [pc EXCEPT ![index] = to.pc]
           /\ attempt' = [attempt EXCEPT ![index] = to.attempt]
           /\ waits' = [waits EXCEPT ![index] =
                          IF to.pc = "sleep"
                          THEN Append(@, WaitTime(attempt[index])) ELSE @]
           /\ events' = [events EXCEPT ![index] =
                           IF to.pc = "sleep" THEN Append(@, "retry") ELSE @]
  /\ UNCHANGED <<params, summaryVars, waveVars, writers, process, mainPC, i, results, semaphore, mu, wg, fullResult>>

\* time.Sleep returns; continue: attempt++ and the next call
SleepReturn(index) ==
  /\ pc[index] = "sleep"
  /\ attempt' = [attempt EXCEPT ![index] = @ + 1]
  /\ pc' = [pc EXCEPT ![index] = IF attempt[index] + 1 < maxRetries
                                 THEN "call" ELSE "lock"]
  /\ UNCHANGED <<params, summaryVars, waveVars, writers, events, process, mainPC, i, results, semaphore, mu, wg, analysis,
                 inputTokens, outputTokens, err, trace, waits, fullResult>>

\* a mutex that excludes nobody
Unlocked_Always == TRUE

\* a lock that is taken only when the gate has a free slot
Unlocked_NeedsFreeSlot == ~mu /\ semaphore < maxConcurrent

\* mu.Lock() can proceed
Unlocked == ~mu

\* mu.Lock()
Lock(index) ==
  /\ pc[index] = "lock"
  /\ Unlocked
  /\ mu' = TRUE
  /\ pc' = [pc EXCEPT ![index] = "write"]
  /\ UNCHANGED <<params, summaryVars, waveVars, writers, events, process, mainPC, i, results, semaphore, wg, locals, trace,
                 waits, fullResult>>

\* a ChunkAnalysis numbered by completion order, as an append would number it
NewChunkAnalysis_ByCompletion(index) ==
  LET pricing == GetPricing(config.ModelName)
      costs   == CostCache[<<inputTokens[index], outputTokens[index]>>, pricing]
      n       == Cardinality({x \in Indices : pc[x] \in {"release", "exit", "done"}})
  IN  [ChunkNumber |-> n + 1,
       StartPage |-> chunks[n + 1].StartPage + 1,
       EndPage |-> chunks[n + 1].EndPage + 1,
       Analysis |-> analysis[index],
       InputTokens |-> inputTokens[index],
       OutputTokens |-> outputTokens[index],
       InputCost |-> costs.InputCost,
       OutputCost |-> costs.OutputCost,
       TotalCost |-> costs.TotalCost,
       Error |-> err[index]]

\* the ChunkAnalysis a goroutine builds from its locals
NewChunkAnalysis(index) ==
  LET pricing == GetPricing(config.ModelName)
      costs   == CostCache[<<inputTokens[index], outputTokens[index]>>, pricing]
  IN  [ChunkNumber |-> index + 1,
       StartPage |-> chunks[index + 1].StartPage + 1,
       EndPage |-> chunks[index + 1].EndPage + 1,
       Analysis |-> analysis[index],
       InputTokens |-> inputTokens[index],
       OutputTokens |-> outputTokens[index],
       InputCost |-> costs.InputCost,
       OutputCost |-> costs.OutputCost,
       TotalCost |-> costs.TotalCost,
       Error |-> err[index]]

\* the slots taken from the other end
Slot_Reversed(index) == Len(chunks) - index

\* the slot a goroutine writes
Slot(index) == index + 1

\* a goroutine that prints "completed" whatever the error
TerminalEvent_AlwaysCompleted(e) == "succeeded"

\* the line printed in the locked region: "failed" with the error, or
\* "completed" with the tokens and the cost
TerminalEvent(e) == IF e # NoErr THEN "failed" ELSE "succeeded"

\* results[index] = ChunkAnalysis{...}; the Error field; the line printed;
\* mu.Unlock()
WriteResult(index) ==
  /\ pc[index] = "write"
  /\ results' = [results EXCEPT ![Slot(index)] = NewChunkAnalysis(index)]
  /\ writers' = [writers EXCEPT ![Slot(index)] = Append(@, index)]
  /\ events' = [events EXCEPT ![index] = Append(@, TerminalEvent(err[index]))]
  /\ mu' = FALSE
  /\ pc' = [pc EXCEPT ![index] = "release"]
  /\ UNCHANGED <<params, summaryVars, waveVars, process, mainPC, i, semaphore, wg, locals, trace, waits,
                 fullResult>>

\* the deferred <-semaphore
Release(index) ==
  /\ pc[index] = "release"
  /\ semaphore' = semaphore - 1
  /\ pc' = [pc EXCEPT ![index] = "exit"]
  /\ UNCHANGED <<params, summaryVars, waveVars, writers, events, process, mainPC, i, results, mu, wg, locals, trace, waits,
                 fullResult>>

\* the deferred wg.Done()
Done(index) ==
  /\ pc[index] = "exit"
  /\ wg' = wg - 1
  /\ pc' = [pc EXCEPT ![index] = "done"]
  /\ UNCHANGED <<params, summaryVars, waveVars, writers, events, process, mainPC, i, results, semaphore, mu, locals, trace,
                 waits, fullResult>>

Next ==
  \/ Setup
  \/ Spawn
  \/ SpawnDone
  \/ Wait
  \/ Aggregate
  \/ \E index \in Indices : Acquire(index)
  \/ \E index \in Indices : AnalyzeReturn(index)
  \/ \E index \in Indices : SleepReturn(index)
  \/ \E index \in Indices : Lock(index)
  \/ \E index \in Indices : WriteResult(index)
  \/ \E index \in Indices : Release(index)
  \/ \E index \in Indices : Done(index)

Spec == Init /\ [][Next]_vars

NextHarness == Next \/ Reaggregate

SpecHarness == InitHarness /\ [][NextHarness]_vars

(***************************************************************************)
(* The end-to-end scenario: 12 units, a gate of 5, 3 attempts, and a test   *)
(* double in the place of analyzeChunk that rejects units 2 and 7 twice    *)
(* with a rate-limit error and unit 9 once with a server error.            *)
(***************************************************************************)
ScenarioUnits == 12

ScenarioGate == 5

ScenarioRetried == {2, 7}

ScenarioFailed == 9

ScenarioScript ==
  [x \in 0..(ScenarioUnits - 1) |->
     IF x \in ScenarioRetried THEN <<"rate_limit", "rate_limit", "ok">>
     ELSE IF x = ScenarioFailed THEN <<"server">>
     ELSE <<"ok">>]

InitScenario ==
  InitWithEnv(Document(ScenarioUnits), ScenarioGate, SrcMaxRetries, DefaultModel,
              SrcModelPricing, {}, ScenarioScript)

\* the goroutines blocked on the gate are served in the order of their start
FirstWaiting(index) ==
  \A x \in Indices : pc[x] = "acquire" => index <= x

\* nothing but a call or a sleep is left to wait for: main is past the range
\* loop and no goroutine can take a step of its own
OnlyCallsPending ==
  /\ mainPC \notin {"setup", "spawn"}
  /\ \A x \in Indices :
       /\ pc[x] \notin {"lock", "write", "release", "exit"}
       /\ pc[x] = "acquire" => ~CanSend

\* the steps of the scenario: those of Next, with the calls and the sleeps
\* lasting longer than any step a goroutine takes on its own, and the gate
\* serving the goroutines in the order of their start; the calls in flight
\* return in any order
NextScenario ==
  \/ Setup
  \/ Spawn
  \/ SpawnDone
  \/ Wait
  \/ Aggregate
  \/ \E index \in Indices : FirstWaiting(index) /\ Acquire(index)
  \/ \E index \in Indices : OnlyCallsPending /\ AnalyzeReturn(index)
  \/ \E index \in Indices : OnlyCallsPending /\ SleepReturn(index)
  \/ \E index \in Indices : Lock(index)
  \/ \E index \in Indices : WriteResult(index)
  \/ \E index \in Indices : Release(index)
  \/ \E index \in Indices : Done(index)

SpecScenario == InitScenario /\ [][NextScenario]_vars

(***************************************************************************)
(* The page-summary program (README.md, unnamed/part_001): the text of the *)
(* pages is extracted by one goroutine per page, then main sends one       *)
(* prompt to the Gemini API.  It shares mainPC, i, wg, mu, pc, totalPages  *)
(* and exitCode with the model of design-ant; a text is a sequence of      *)
(* pieces, " " standing for white space.                                   *)
(***************************************************************************)
\* a document that fitz opens, run with the .env file, the key and the path
SummaryDocument(n) ==
  [dotenv |-> TRUE, apiKey |-> TRUE, args |-> TRUE, exists |-> TRUE,
   opens |-> TRUE, pages |-> n]

\* documents of up to MaxSummaryPages pages
MaxSummaryPages == 3

InitSummary ==
  \E e \in {SummaryDocument(n) : n \in 0..MaxSummaryPages}
            \cup {[SummaryDocument(1) EXCEPT !.exists = FALSE]} :
    InitWithEnv(e, SrcMaxConcurrent, SrcMaxRetries, DefaultModel, SrcModelPricing,
                {}, <<>>)

\* the zero value of PageData
ZeroPageData == [PageNumber |-> 0, Text |-> NoText]

\* main up to the loop that starts the goroutines
SummarySetup ==
  /\ mainPC = "setup"
  /\ IF ~(env.dotenv /\ env.apiKey /\ env.args /\ env.exists /\ env.opens)
     THEN /\ mainPC' = "fatal"
          /\ exitCode' = <<1>>
          /\ UNCHANGED <<totalPages, pageSlice, pc, text>>
     ELSE /\ mainPC' = "extract"
          /\ totalPages' = env.pages
          /\ pageSlice' = [k \in 1..env.pages |-> ZeroPageData]
          /\ pc' = [x \in 0..(env.pages - 1) |-> "idle"]
          /\ text' = [x \in 0..(env.pages - 1) |-> NoText]
          /\ UNCHANGED exitCode
  /\ UNCHANGED <<maxConcurrent, maxRetries, chunkSize, config, ModelPricing, chunks,
                 flaky, env, script, i, results, semaphore, mu, wg, locals, trace,
                 waits, fullResult, folds, jsonFile, requests, summary, waveVars,
                 writers, events>>

\* what the summary actions leave alone of the model of design-ant
designAnt == <<maxConcurrent, maxRetries, chunkSize, config, ModelPricing, totalPages, chunks,
               flaky, env, script, results, semaphore, locals, trace, waits,
               fullResult, folds, jsonFile, waveVars, writers, events>>

\* one iteration of "for i := 0; i < totalPages; i++": wg.Add(1); go func...
ExtractSpawn ==
  /\ mainPC = "extract"
  /\ i < totalPages
  /\ wg' = wg + 1
  /\ pc' = [pc EXCEPT ![i] = "text"]
  /\ i' = i + 1
  /\ UNCHANGED <<designAnt, mainPC, mu, exitCode, summaryVars>>

\* the loop ends
ExtractSpawnDone ==
  /\ mainPC = "extract"
  /\ i >= totalPages
  /\ mainPC' = "wait"
  /\ UNCHANGED <<designAnt, i, mu, wg, pc, exitCode, summaryVars>>

\* what doc.Text can return for a page: its text, white space, or an error,
\* on which the goroutine logs a warning and takes the empty text
PageTexts(pageIndex) ==
  { <<" ", "page", ToString(pageIndex + 1), " ">>, <<" ">>, NoText }

\* strings.TrimSpace
TrimSpace(t) ==
  LET inked == {j \in 1..Len(t) : t[j] # " "}
  IN  IF inked = {} THEN NoText
      ELSE SubSeq(t, CHOOSE j \in inked : \A k \in inked : j <= k,
                     CHOOSE j \in inked : \A k \in inked : k <= j)

\* doc.Text(pageIndex) returns
TextReturn(pageIndex) ==
  /\ pc[pageIndex] = "text"
  /\ \E t \in PageTexts(pageIndex) : text' = [text EXCEPT ![pageIndex] = t]
  /\ pc' = [pc EXCEPT ![pageIndex] = "lock"]
  /\ UNCHANGED <<designAnt, mainPC, i, mu, wg, exitCode, pageSlice, requests, summary>>

\* mu.Lock()
PageLock(pageIndex) ==
  /\ pc[pageIndex] = "lock"
  /\ Unlocked
  /\ mu' = TRUE
  /\ pc' = [pc EXCEPT ![pageIndex] = "write"]
  /\ UNCHANGED <<designAnt, mainPC, i, wg, exitCode, summaryVars>>

\* pages[pageIndex] = PageData{...}; mu.Unlock()
PageWrite(pageIndex) ==
  /\ pc[pageIndex] = "write"
  /\ pageSlice' = [pageSlice EXCEPT ![pageIndex + 1] =
                 [PageNumber |-> pageIndex + 1, Text |-> TrimSpace(text[pageIndex])]]
  /\ mu' = FALSE
  /\ pc' = [pc EXCEPT ![pageIndex] = "exit"]
  /\ UNCHANGED <<designAnt, mainPC, i, wg, exitCode, text, requests, summary>>

\* the deferred wg.Done()
PageDone(pageIndex) ==
  /\ pc[pageIndex] = "exit"
  /\ wg' = wg - 1
  /\ pc' = [pc EXCEPT ![pageIndex] = "done"]
  /\ UNCHANGED <<designAnt, mainPC, i, mu, exitCode, summaryVars>>

\* wg.Wait() returns
ExtractWait ==
  /\ mainPC = "wait"
  /\ CounterZero
  /\ mainPC' = "prompt"
  /\ UNCHANGED <<designAnt, i, mu, wg, pc, exitCode, summaryVars>>

\* a prompt of every page of the slice, the empty ones too
Prompt_AllPages(ps, k) == SubSeq(ps, k, Len(ps))

\* the prompt: the pages that have a text, in the order of the slice
RECURSIVE Prompt(_, _)
Prompt(ps, k) ==
  IF k > Len(ps) THEN <<>>
  ELSE (IF ps[k].Text # NoText THEN <<ps[k]>> ELSE <<>>) \o Prompt(ps, k + 1)

\* main builds one prompt of all the pages and calls callGeminiAPI once; an
\* error is fatal, else the summary is saved (or a warning logged), printed,
\* and main returns
CallGemini ==
  /\ mainPC = "prompt"
  /\ requests' = Append(requests, Prompt(pageSlice, 1))
  /\ \E ok \in BOOLEAN :
       IF ok
       THEN /\ summary' = <<"summary of ", ToString(Len(Prompt(pageSlice, 1))), " pages">>
            /\ mainPC' = "done"
            /\ exitCode' = <<0>>
       ELSE /\ summary' = NoText
            /\ mainPC' = "fatal"
            /\ exitCode' = <<1>>
  /\ UNCHANGED <<designAnt, i, mu, wg, pc, pageSlice, text>>

NextSummary ==
  \/ SummarySetup
  \/ ExtractSpawn
  \/ ExtractSpawnDone
  \/ ExtractWait
  \/ CallGemini
  \/ \E pageIndex \in DOMAIN pc : TextReturn(pageIndex)
  \/ \E pageIndex \in DOMAIN pc : PageLock(pageIndex)
  \/ \E pageIndex \in DOMAIN pc : PageWrite(pageIndex)
  \/ \E pageIndex \in DOMAIN pc : PageDone(pageIndex)

SpecSummary == InitSummary /\ [][NextSummary]_vars

(***************************************************************************)
(* Properties.                                                             *)
(***************************************************************************)
InFlight == {index \in Indices : pc[index] = "call"}

\* the goroutine has left the locked region: its slot is written
Written(index) == pc[index] \in {"release", "exit", "done"}

Joined == mainPC \in {"fold", "done"}

PageNumber(index) == chunks[index + 1].StartPage + 1

LastReturn(index) == trace[index][Len(trace[index])]

\* a rate-limit answer of the service, whatever the loop makes of it
IsTransient(e) ==
  \E a \in 0..SrcMaxRetries, p \in 1..(totalPages + 1) : e = RateLimitError(p, a).err

IsPermanent(e) == e # NoErr /\ ~IsTransient(e)

\* the first n returns of the goroutine are rate-limit errors
TransientPrefix(index, n) ==
  \A j \in 1..n : IsTransient(trace[index][j].err)

\* C1: at most maxConcurrent calls of analyzeChunk are in flight at any time
C1_ConcurrencyBound == Cardinality(InFlight) <= maxConcurrent

\* the gate is full and a further goroutine is blocked on it
C1_Witness ==
  /\ Cardinality(InFlight) = maxConcurrent
  /\ \E index \in Indices : pc[index] = "acquire"

\* C2: when the join has returned there are exactly N results, and entry i is
\* the result of unit i: its ChunkNumber is i + 1, its pages are those of
\* chunk i and its contents are what the last call of goroutine i returned
C2_AllPopulated ==
  Joined =>
    /\ Len(results) = totalPages
    /\ \A index \in Indices :
         LET r == results[index + 1]
         IN  /\ r.ChunkNumber = index + 1
             /\ r.StartPage = PageNumber(index)
             /\ trace[index] # <<>>
             /\ r.Analysis = LastReturn(index).analysis
             /\ r.InputTokens = LastReturn(index).inputTokens
             /\ r.OutputTokens = LastReturn(index).outputTokens
             /\ r.Error = LastReturn(index).err

\* a batch larger than the gate has been joined, its first unit after 3 calls
C2_Witness ==
  /\ Joined
  /\ Len(results) > maxConcurrent
  /\ Len(trace[0]) = maxRetries

\* C3: a success that follows k < R rate-limit errors is the last call of the
\* unit (k + 1 calls), leaves the retry loop and is what the result records:
\* no error, the text and the token counts of that answer
C3_RetryThenSuccess ==
  \A index \in Indices : \A n \in 1..Len(trace[index]) :
    (trace[index][n].err = NoErr /\ TransientPrefix(index, n - 1)) =>
      /\ n - 1 < maxRetries
      /\ Len(trace[index]) = n
      /\ pc[index] \notin {"call", "sleep"}
      /\ Written(index) =>
           /\ results[index + 1].Error = NoErr
           /\ results[index + 1].Analysis = trace[index][n].analysis
           /\ results[index + 1].InputTokens = trace[index][n].inputTokens
           /\ results[index + 1].OutputTokens = trace[index][n].outputTokens

\* a unit recorded as a success on its third call, after two rate-limit errors
C3_Witness ==
  \E index \in Indices :
    /\ Written(index)
    /\ Len(trace[index]) = maxRetries
    /\ TransientPrefix(index, maxRetries - 1)
    /\ results[index + 1].Error = NoErr
    /\ results[index + 1].InputTokens > 0

\* C4: a unit whose R calls all fail with a rate-limit error makes no further
\* call and records the error of the R-th call; and a recorded rate-limit
\* error always comes from such a unit
C4_Exhausted ==
  \A index \in Indices :
    /\ (Len(trace[index]) >= maxRetries /\ TransientPrefix(index, maxRetries)) =>
         /\ Len(trace[index]) = maxRetries
         /\ pc[index] \notin {"call", "sleep"}
         /\ Written(index) =>
              results[index + 1].Error = trace[index][maxRetries].err
    /\ (Written(index) /\ IsTransient(results[index + 1].Error)) =>
         /\ Len(trace[index]) = maxRetries
         /\ TransientPrefix(index, maxRetries)

\* a unit recorded with the rate-limit error of its third call
C4_Witness ==
  \E index \in Indices :
    /\ Written(index)
    /\ Len(trace[index]) = maxRetries
    /\ results[index + 1].Error
         = RateLimitError(PageNumber(index), maxRetries - 1).err

\* C5: a unit whose first call fails with an error that is no rate-limit
\* error makes no other call and no backoff wait, and records that error
C5_NoRetryOnPermanent ==
  \A index \in Indices :
    (trace[index] # <<>> /\ IsPermanent(trace[index][1].err)) =>
      /\ Len(trace[index]) = 1
      /\ waits[index] = <<>>
      /\ pc[index] \notin {"call", "sleep"}
      /\ Written(index) => results[index + 1].Error = trace[index][1].err

\* a unit recorded with the server error of its first call
C5_Witness ==
  \E index \in Indices :
    /\ Written(index)
    /\ results[index + 1].Error = ServerError(PageNumber(index), 0).err

\* the unit's calls all succeeded / all failed with a permanent error
AlwaysSucceeds(index) ==
  trace[index] # <<>> /\ \A j \in 1..Len(trace[index]) : trace[index][j].err = NoErr

AlwaysFailsPermanently(index) ==
  trace[index] # <<>> /\ \A j \in 1..Len(trace[index]) : IsPermanent(trace[index][j].err)

\* main or some goroutine can take a step: the guards of the actions
CanStep ==
  \/ mainPC \in {"setup", "spawn", "fold"}
  \/ mainPC = "wait" /\ CounterZero
  \/ \E index \in Indices :
       \/ pc[index] = "acquire" /\ CanSend
       \/ pc[index] = "lock" /\ Unlocked
       \/ pc[index] \in {"call", "sleep", "write", "release", "exit"}

\* C6: the batch never stops before it is done, and when it is done every
\* unit that only succeeded holds its text and tokens with no error and every
\* unit that only failed permanently holds its error
C6_PartialFailure ==
  /\ mainPC \notin {"done", "fatal"} => CanStep
  /\ mainPC = "done" =>
       \A index \in Indices :
         /\ pc[index] = "done"
         /\ AlwaysSucceeds(index) =>
              /\ results[index + 1].Error = NoErr
              /\ results[index + 1].ChunkNumber = index + 1
              /\ results[index + 1].Analysis = trace[index][1].analysis
              /\ results[index + 1].InputTokens = trace[index][1].inputTokens
         /\ AlwaysFailsPermanently(index) =>
              /\ results[index + 1].Error = trace[index][1].err
              /\ results[index + 1].ChunkNumber = index + 1
              /\ results[index + 1].Analysis = NoText

\* a finished batch of a failing unit and a succeeding one
C6_Witness ==
  /\ mainPC = "done"
  /\ \E x \in Indices, y \in Indices :
       /\ AlwaysFailsPermanently(x)
       /\ AlwaysSucceeds(y)
       /\ results[y + 1].Analysis # NoText

\* C7: once the join has returned, and whenever the totals exist, every
\* goroutine has returned and its slot holds its result
C7_JoinBarrier ==
  (Joined \/ fullResult.built) =>
    \A index \in Indices :
      /\ pc[index] = "done"
      /\ results[index + 1].ChunkNumber = index + 1

\* the join has just returned for a batch larger than the gate
C7_Witness ==
  /\ mainPC = "fold"
  /\ Len(chunks) > maxConcurrent

\* the ChunkAnalysis of a unit as a function of its index and of the returns
\* of its calls alone
ExpectedResult(index, returns) ==
  LET last  == returns[Len(returns)]
      price == GetPricing(config.ModelName)
      inC   == FMul(FDivInt(last.inputTokens, PerMillion), price.InputPricePerMTokens)
      outC  == FMul(FDivInt(last.outputTokens, PerMillion), price.OutputPricePerMTokens)
  IN  [ChunkNumber |-> index + 1,
       StartPage |-> index * SrcChunkSize + 1,
       EndPage |-> Min((index + 1) * SrcChunkSize, totalPages),
       Analysis |-> last.analysis,
       InputTokens |-> last.inputTokens,
       OutputTokens |-> last.outputTokens,
       InputCost |-> inC,
       OutputCost |-> outC,
       TotalCost |-> FAdd(inC, outC),
       Error |-> last.err]

\* C8: the joined result sequence is a function of the unit indices and of
\* the returns each unit received, whatever the interleaving was, and it is
\* in ascending page order; the report carries it unchanged
C8_OrderByIndex ==
  Joined =>
    /\ results = [k \in 1..totalPages |-> ExpectedResult(k - 1, trace[k - 1])]
    /\ \A k \in 1..(Len(results) - 1) : results[k].EndPage < results[k + 1].StartPage
    /\ fullResult.built => fullResult.Chunks = results

\* a report of several units of which the first needed a retry
C8_Witness ==
  /\ fullResult.built
  /\ Len(fullResult.Chunks) >= 2
  /\ Len(trace[0]) > 1

\* the next double above x > 0
Succ(x) ==
  LET pad == MantissaBits - Len(x.m)
  IN  Canon(Increment(Zeros(pad) \o x.m), x.e - pad)

RECURSIVE SuccN(_, _)
SuccN(x, k) == IF k = 0 THEN x ELSE SuccN(Succ(x), k - 1)

\* x and y are at most k doubles apart
WithinUlps(x, y, k) ==
  \/ x = y
  \/ /\ x # Zero
     /\ y # Zero
     /\ \E j \in 1..k : SuccN(x, j) = y \/ SuccN(y, j) = x

\* the token totals and the two cost totals of the report are the sums of
\* the chunk fields, accumulated from 0 in index order
TotalsAreFolds ==
  /\ fullResult.TotalInputTokens = SumInt(fullResult.Chunks, "InputTokens", 1)
  /\ fullResult.TotalOutputTokens = SumInt(fullResult.Chunks, "OutputTokens", 1)
  /\ fullResult.TotalInputCost = FoldFloat(fullResult.Chunks, "InputCost", 1, Zero)
  /\ fullResult.TotalOutputCost = FoldFloat(fullResult.Chunks, "OutputCost", 1, Zero)
  /\ fullResult.TotalCost = FAdd(fullResult.TotalInputCost, fullResult.TotalOutputCost)

\* the sum of the chunks' TotalCost, accumulated from 0 in index order
SumOfUnitTotalCost == FoldFloat(fullResult.Chunks, "TotalCost", 1, Zero)

\* C9 as stated: after the batch the totals are exactly the folds of the
\* per-unit values, and TotalCost = TotalInputCost + TotalOutputCost is
\* exactly the sum of the units' TotalCost
C9_ExactTotals ==
  fullResult.built =>
    /\ TotalsAreFolds
    /\ fullResult.TotalCost = SumOfUnitTotalCost

\* C9: after the batch the token totals are the exact sums of the unit
\* token counts, TotalInputCost and TotalOutputCost are the float64 sums of
\* the unit costs accumulated from 0 in index order, TotalCost is their one
\* float64 sum, and TotalCost is within 4 * N doubles of the accumulated sum
\* of the units' TotalCost (N the number of units), not always equal to it
C9_TotalsUpToRounding ==
  fullResult.built =>
    /\ fullResult.Chunks = results
    /\ TotalsAreFolds
    /\ WithinUlps(fullResult.TotalCost, SumOfUnitTotalCost, 4 * Len(results))

\* a report of two successful units whose TotalCost is not the accumulated
\* sum of the units' TotalCost
C9_Witness ==
  /\ fullResult.built
  /\ Len(fullResult.Chunks) = 2
  /\ \A k \in 1..2 : fullResult.Chunks[k].InputTokens > 0
  /\ fullResult.TotalCost # SumOfUnitTotalCost

\* the costs of a written slot follow from its token counts and the price
\* entry of the configured model
UnitCostFormula(r) ==
  LET pricing == GetPricing(config.ModelName)
  IN  /\ r.InputCost = FMul(FDivInt(r.InputTokens, PerMillion),
                            pricing.InputPricePerMTokens)
      /\ r.OutputCost = FMul(FDivInt(r.OutputTokens, PerMillion),
                             pricing.OutputPricePerMTokens)
      /\ r.TotalCost = FAdd(r.InputCost, r.OutputCost)

\* the batch of the example: token counts (100, 50) and (200, 100) at the
\* prices 1.0 and 2.0
ExampleBatch ==
  /\ fullResult.built
  /\ GetPricing(config.ModelName) = Pricing(Dbl(1, 0), Dbl(2, 0))
  /\ Len(results) = 2
  /\ results[1].InputTokens = 100 /\ results[1].OutputTokens = 50
  /\ results[2].InputTokens = 200 /\ results[2].OutputTokens = 100

\* (300/1e6)*1.0 + (150/1e6)*2.0 in float64
ExampleClosedForm ==
  FAdd(FMul(FDivInt(300, PerMillion), Dbl(1, 0)),
       FMul(FDivInt(150, PerMillion), Dbl(2, 0)))

\* what the program accumulates for the example:
\* (100/1e6*1.0 + 200/1e6*1.0) + (50/1e6*2.0 + 100/1e6*2.0)
ExampleAccumulated ==
  FAdd(FAdd(FMul(FDivInt(100, PerMillion), Dbl(1, 0)),
            FMul(FDivInt(200, PerMillion), Dbl(1, 0))),
       FAdd(FMul(FDivInt(50, PerMillion), Dbl(2, 0)),
            FMul(FDivInt(100, PerMillion), Dbl(2, 0))))

C11_GetPricingTotal ==
  /\ \A n \in DOMAIN SrcModelPricing : GetPricing(n) = SrcModelPricing[n]
  /\ \A n \in DOMAIN ModelPricing : GetPricing(n) = ModelPricing[n]
  /\ \A n \in UnknownModels : GetPricing(n) = Pricing(Dbl(1, -2), Dbl(5, -2))
  /\ config.ModelName \in UnknownModels =>
       \A index \in Indices :
         Written(index) =>
           results[index + 1].InputCost =
             FMul(FDivInt(results[index + 1].InputTokens, PerMillion), Dbl(1, -2))

\* a run configured with an unknown model name has priced a successful unit
C11_Witness ==
  /\ config.ModelName \notin DOMAIN ModelPricing
  /\ \E index \in Indices :
       /\ Written(index)
       /\ results[index + 1].InputTokens > 0
       /\ results[index + 1].InputCost # Zero

\* C12: a document of zero pages gives no chunk; no goroutine is started and
\* no call of analyzeChunk is made, the join finds its counter at 0, main is
\* never blocked, and the report has no chunk and totals of zero
C12_EmptyBatch ==
  (totalPages = 0 /\ mainPC \notin {"setup", "fatal"}) =>
    /\ chunks = <<>>
    /\ results = <<>>
    /\ pc = <<>> /\ trace = <<>>
    /\ i = 0 /\ wg = 0 /\ semaphore = 0
    /\ CounterZero
    /\ mainPC # "done" => (mainPC \in {"spawn", "fold"} \/ (mainPC = "wait" /\ CounterZero))
    /\ fullResult.built =>
         /\ fullResult.Chunks = <<>>
         /\ fullResult.TotalChunks = 0
         /\ fullResult.TotalInputTokens = 0
         /\ fullResult.TotalOutputTokens = 0
         /\ fullResult.TotalInputCost = Zero
         /\ fullResult.TotalOutputCost = Zero
         /\ fullResult.TotalCost = Zero

\* the report of a document of zero pages
C12_Witness ==
  /\ env.pages = 0
  /\ mainPC = "done"
  /\ fullResult.built
  /\ fullResult.Chunks = <<>>

\* the range loop has been reached
Dispatching == mainPC \in {"spawn", "wait", "fold", "done"}

\* one step of the set-up fails: the arguments, the credential, the path, the
\* page count, the temporary directory, or the extraction of some page
SetupFails ==
  \/ ~env.args \/ ~env.apiKey \/ ~env.exists
  \/ env.countFails \/ env.tempDirFails
  \/ env.unreadable \cap (1..env.pages) # {}

\* C13: the process is over exactly when main has returned or log.Fatal was
\* called; once the range loop is reached the exit code can only be 0, and it
\* is 0 when main returns, whatever errors the units recorded and whether or
\* not the report was saved; exit code 1 occurs only for a failed set-up,
\* before any goroutine was started
C13_ExitCode ==
  /\ exitCode # <<>> <=> mainPC \in {"done", "fatal"}
  /\ Dispatching => exitCode \in {<<>>, <<0>>}
  /\ mainPC = "done" => exitCode = <<0>> /\ jsonFile \in {"saved", "warning"}
  /\ exitCode = <<1>> =>
       /\ mainPC = "fatal"
       /\ SetupFails
       /\ i = 0 /\ wg = 0 /\ pc = <<>> /\ trace = <<>>

\* main has returned from a batch in which every unit recorded an error and
\* the report could not be saved
C13_Witness ==
  /\ mainPC = "done"
  /\ exitCode = <<0>>
  /\ jsonFile = "warning"
  /\ Len(results) >= 2
  /\ \A k \in 1..Len(results) : results[k].Error # NoErr

\* C14: when the credential is missing, the path does not exist, the page
\* count fails or the split fails, main never reaches the range loop: no
\* goroutine is started, analyzeChunk is never called, no report is built,
\* and the process ends with exit code 1
C14_SetupAbort ==
  (\/ ~env.apiKey \/ ~env.exists \/ env.countFails
   \/ env.unreadable \cap (1..env.pages) # {}) =>
    /\ mainPC \in {"setup", "fatal"}
    /\ mainPC = "fatal" <=> exitCode = <<1>>
    /\ exitCode \in {<<>>, <<1>>}
    /\ i = 0 /\ wg = 0 /\ semaphore = 0
    /\ chunks = <<>> /\ results = <<>> /\ pc = <<>> /\ trace = <<>>
    /\ ~fullResult.built /\ jsonFile = "none"

\* the run of a document whose second page cannot be extracted has ended
C14_Witness ==
  /\ env.unreadable = {2}
  /\ env.apiKey /\ env.exists /\ ~env.countFails
  /\ mainPC = "fatal"
  /\ exitCode = <<1>>

\* C15 as stated: a document of zero pages is a fatal set-up error: the run
\* ends before the range loop with a non-zero exit code and no report
C15_ZeroPagesFatal ==
  (env = Document(0) /\ mainPC # "setup") =>
    /\ mainPC = "fatal"
    /\ exitCode = <<1>>
    /\ ~fullResult.built
    /\ jsonFile = "none"

\* C17 as stated: when the extraction of one page fails, the run is not
\* aborted: the other units are dispatched, and at the end the unit of that
\* page holds an error and every other unit holds its result
C17_ExtractionFailureRecorded ==
  (env.unreadable # {} /\ env = [Document(env.pages) EXCEPT !.unreadable = env.unreadable]) =>
    /\ mainPC # "fatal"
    /\ exitCode # <<1>>
    /\ mainPC = "done" =>
         /\ Len(results) = env.pages
         /\ \A p \in env.unreadable : results[p].Error # NoErr

\* the chunks are of 5 pages, the last one of what is left
FivePageChunks ==
  \A k \in 1..Len(chunks) :
    /\ chunks[k].StartPage = 5 * (k - 1)
    /\ chunks[k].EndPage = Min(5 * k, totalPages) - 1

\* C20 as stated: a document of more than 20 pages is split into chunks of 5
\* pages, and one of at most 20 pages is a single chunk
C20_ChunksOfFive ==
  /\ (Dispatching /\ totalPages > 20) => FivePageChunks
  /\ (Dispatching /\ totalPages \in 1..20) =>
       /\ Len(chunks) = 1
       /\ chunks[1].StartPage = 0 /\ chunks[1].EndPage = totalPages - 1

C19_CallPerPage ==
  (mainPC = "done" /\ totalPages >= 1) =>
    /\ \A pageIndex \in DOMAIN pc : pc[pageIndex] = "done"
    /\ Len(requests) = totalPages

\* C21 as stated: all the chunks are sent simultaneously, so the request of
\* a started goroutine is never held back behind the requests in flight
C21_AllSentSimultaneously ==
  \A index \in Indices : pc[index] = "acquire" => CanSend

\* the goroutines between the send on the channel and the deferred receive
Holding == {index \in Indices : pc[index] \in {"call", "sleep", "lock", "write", "release"}}

\* C23: a goroutine holds its slot from the send until after its last
\* attempt and its write, the backoff waits included: the channel holds one
\* element per such goroutine, the sleeping ones counted, and they are never
\* more than maxConcurrent
C23_SlotHeldThroughBackoff ==
  /\ semaphore = Cardinality(Holding)
  /\ Cardinality(Holding) <= maxConcurrent
  /\ \A index \in Indices :
       pc[index] \in {"sleep", "lock", "write"} => semaphore >= 1

\* the gate is full, one of its holders sleeps in backoff and a further
\* goroutine is blocked on the send
C23_Witness ==
  /\ semaphore = maxConcurrent
  /\ \E index \in Indices : pc[index] = "sleep"
  /\ \E index \in Indices : pc[index] = "acquire"
  /\ ~CanSend

\* C24: after the rate-limit failure of attempt a (from 0), with attempts
\* left, the goroutine sleeps retryDelay * 2^a: 2 s after the first failure,
\* 4 s after the second, each wait the double of the one before; there is one
\* wait per such failure and none after the last attempt
C24_BackoffDoubles ==
  \A index \in Indices :
    /\ Len(waits[index]) <= maxRetries - 1
    /\ Len(waits[index]) >= 1 => waits[index][1] = 2
    /\ Len(waits[index]) >= 2 => waits[index][2] = 4
    /\ \A k \in 1..Len(waits[index]) :
         /\ waits[index][k] = retryDelay * 2^(k - 1)
         /\ k > 1 => waits[index][k] = 2 * waits[index][k - 1]
         /\ IsTransient(trace[index][k].err)
    /\ Len(waits[index]) =
         Cardinality({k \in 1..Min(Len(trace[index]), maxRetries - 1) :
                        IsTransient(trace[index][k].err)})
    /\ pc[index] = "sleep" =>
         /\ Len(trace[index]) < maxRetries
         /\ Len(waits[index]) = Len(trace[index])
         /\ IsTransient(LastReturn(index).err)

\* a goroutine was refused on all its attempts: it has slept 2 s and 4 s and
\* went to the write without a third wait
C24_Witness ==
  \E index \in Indices :
    /\ Len(trace[index]) = maxRetries
    /\ IsTransient(LastReturn(index).err)
    /\ waits[index] = <<2, 4>>
    /\ pc[index] \in {"lock", "write", "release", "exit", "done"}

(***************************************************************************)
(* Progress.  The Go scheduler runs every goroutine that can run, a call   *)
(* of analyzeChunk returns (the HTTP client has a timeout) and time.Sleep  *)
(* ends: weak fairness of main and of every goroutine.                     *)
(***************************************************************************)
\* documents of up to MaxFairPages pages
MaxFairPages == 2

\* the dispatcher as written, for every short document and every gate
\* capacity from 1; the requests of the last page may fail
InitFair ==
  \E pages \in 0..MaxFairPages, gate \in 1..MaxGate :
    InitWith(pages, gate, SrcMaxRetries, DefaultModel, SrcModelPricing,
             {pages - 1} \cap (0..(pages - 1)))

\* a step of main up to the return of wg.Wait(); no fairness is assumed of
\* what main does after the join
MainStep == Setup \/ Spawn \/ SpawnDone \/ Wait

\* a step of the goroutine of chunk index
Worker(index) ==
  /\ index \in Indices
  /\ \/ Acquire(index)
     \/ AnalyzeReturn(index)
     \/ SleepReturn(index)
     \/ Lock(index)
     \/ WriteResult(index)
     \/ Release(index)
     \/ Done(index)

SpecFair ==
  /\ InitFair
  /\ [][Next]_vars
  /\ WF_vars(MainStep)
  /\ \A index \in 0..(MaxFairPages - 1) : WF_vars(Worker(index))

\* the unit is terminal: its slot is written with a success, a permanent
\* failure, or the rate-limit error of the last allowed attempt
Terminal(index) ==
  /\ index \in DOMAIN pc
  /\ Written(index)
  /\ \/ results[index + 1].Error = NoErr
     \/ IsPermanent(results[index + 1].Error)
     \/ IsTransient(results[index + 1].Error) /\ Len(trace[index]) = maxRetries

\* C25: under weak fairness, calls and waits ending, every started goroutine
\* eventually gets a slot and eventually is terminal, and once the range loop
\* has begun the join eventually returns with every unit terminal, for every
\* number of units and every gate capacity from 1
C25_EventuallyComplete ==
  /\ \A index \in 0..(MaxFairPages - 1) :
       /\ (index \in DOMAIN pc /\ pc[index] = "acquire")
            ~> (index \in DOMAIN pc /\ pc[index] \notin {"idle", "acquire"})
       /\ (index \in DOMAIN pc /\ pc[index] = "acquire") ~> Terminal(index)
  /\ (mainPC = "spawn") ~> (Joined /\ \A index \in Indices : Terminal(index))

\* a batch of more units than slots has completed, one of its units after
\* using up its attempts
C25_Witness ==
  /\ Joined
  /\ Len(chunks) > maxConcurrent
  /\ \A index \in Indices : Terminal(index)
  /\ \E index \in Indices :
       IsTransient(results[index + 1].Error) /\ Len(trace[index]) = maxRetries

\* the retry loop of the goroutine is over: its last call succeeded, failed
\* for good, or was its last allowed attempt
LoopLeft(index) ==
  /\ Len(trace[index]) >= 1
  /\ \/ LastReturn(index).err = NoErr
     \/ IsPermanent(LastReturn(index).err)
     \/ Len(trace[index]) = maxRetries

\* C26: the mutex is locked exactly while one goroutine is in its write
\* region; that goroutine is not waiting for a slot, not in a call and not in
\* a backoff wait: its retry loop is over, it still holds its slot, and what
\* it writes is what its last call returned
C26_LockOnlyForWrite ==
  /\ mu <=> \E index \in Indices : pc[index] = "write"
  /\ \A index \in Indices :
       pc[index] = "write" =>
         /\ LoopLeft(index)
         /\ index \in Holding
         /\ semaphore >= 1
         /\ err[index] = LastReturn(index).err

\* a goroutine holds the mutex after its last attempt while another one
\* sleeps in backoff and a third one waits for a slot
C26_Witness ==
  /\ mu
  /\ \E index \in Indices : pc[index] = "write" /\ LoopLeft(index)
  /\ \E index \in Indices : pc[index] = "sleep"
  /\ \E index \in Indices : pc[index] = "acquire"

\* C28: a unit whose last attempt failed, for good or after its last allowed
\* attempt, is recorded with no tokens, no cost and no analysis text, and the
\* totals of the report are those of the units that succeeded
C28_FailedUnitsCostNothing ==
  /\ \A index \in Indices :
       (Written(index) /\ results[index + 1].Error # NoErr) =>
         /\ LoopLeft(index)
         /\ results[index + 1].Error = LastReturn(index).err
         /\ results[index + 1].InputTokens = 0
         /\ results[index + 1].OutputTokens = 0
         /\ results[index + 1].InputCost = Zero
         /\ results[index + 1].OutputCost = Zero
         /\ results[index + 1].TotalCost = Zero
         /\ results[index + 1].Analysis = NoText
  /\ fullResult.built =>
       LET succeeded == SelectSeq(results, LAMBDA r : r.Error = NoErr)
       IN  /\ fullResult.TotalInputTokens = SumInt(succeeded, "InputTokens", 1)
           /\ fullResult.TotalOutputTokens = SumInt(succeeded, "OutputTokens", 1)
           /\ fullResult.TotalInputCost = FoldFloat(succeeded, "InputCost", 1, Zero)
           /\ fullResult.TotalOutputCost = FoldFloat(succeeded, "OutputCost", 1, Zero)
           /\ fullResult.TotalCost =
                FAdd(FoldFloat(succeeded, "InputCost", 1, Zero),
                     FoldFloat(succeeded, "OutputCost", 1, Zero))

\* a report of a batch in which one unit failed on its last allowed attempt
\* and another succeeded with tokens billed
C28_Witness ==
  /\ fullResult.built
  /\ \E index \in Indices :
       /\ results[index + 1].Error # NoErr
       /\ Len(trace[index]) = maxRetries
  /\ \E index \in Indices :
       /\ results[index + 1].Error = NoErr
       /\ results[index + 1].InputTokens > 0
  /\ fullResult.TotalInputTokens > 0

(***************************************************************************)
(* splitPDFIntoChunks under a harness: main run up to the range loop for   *)
(* every chunk size and page count of a small range, no extraction failing *)
(***************************************************************************)
MaxSplitPages == 12

MaxSplitSize == 5

InitSplit ==
  \E pages \in 0..MaxSplitPages, size \in 1..MaxSplitSize :
    InitWithSize(size, Document(pages), SrcMaxConcurrent, SrcMaxRetries,
                 DefaultModel, SrcModelPricing, {}, NoScript(pages))

SpecSplit == InitSplit /\ [][Setup]_vars

\* C30: for N pages and chunk size s >= 1, no extraction failing,
\* splitPDFIntoChunks returns ceil(N/s) chunks in ascending order, each of 1
\* to s pages, the first from page 0, each starting where the one before
\* ends, pairwise disjoint and covering exactly the pages 0..N-1; with s = 1
\* there are N chunks of one page
C30_ChunksPartitionPages ==
  Dispatching =>
    /\ totalPages = env.pages
    /\ Len(chunks) = (totalPages + chunkSize - 1) \div chunkSize
    /\ \A k \in 1..Len(chunks) :
         /\ chunks[k].StartPage <= chunks[k].EndPage
         /\ chunks[k].EndPage - chunks[k].StartPage + 1 <= chunkSize
         /\ chunks[k].StartPage = IF k = 1 THEN 0 ELSE chunks[k - 1].EndPage + 1
         /\ k = Len(chunks) => chunks[k].EndPage = totalPages - 1
    /\ \A k, j \in 1..Len(chunks) :
         k < j => /\ (chunks[k].StartPage..chunks[k].EndPage)
                       \cap (chunks[j].StartPage..chunks[j].EndPage) = {}
                  /\ chunks[k].EndPage < chunks[j].StartPage
    /\ UNION {chunks[k].StartPage..chunks[k].EndPage : k \in 1..Len(chunks)}
         = 0..(totalPages - 1)
    /\ chunkSize = 1 =>
         /\ Len(chunks) = totalPages
         /\ \A k \in 1..Len(chunks) :
              chunks[k].StartPage = k - 1 /\ chunks[k].EndPage = k - 1

\* a document split into several chunks, the last one shorter than the rest
C30_Witness ==
  /\ Dispatching
  /\ chunkSize > 1
  /\ Len(chunks) >= 3
  /\ totalPages % chunkSize # 0
  /\ chunks[Len(chunks)].EndPage - chunks[Len(chunks)].StartPage + 1 < chunkSize

(***************************************************************************)
(* The wave form (approach/main.go; unnamed/part_006 has the same loops    *)
(* and differs in how a goroutine prepares its page: a single-page PDF     *)
(* instead of a PNG image).  The first 10 pages are processed in waves of  *)
(* 5 goroutines, each wave joined before the next one starts.  It shares   *)
(* mainPC, i, wg, mu, pc, results, totalPages, env, flaky and exitCode     *)
(* with the model of design-ant; main starts at "open".                    *)
(***************************************************************************)
\* batchSize := 5
batchSize == 5

\* maxPages := 10
SrcMaxPages == 10

\* a document that fitz opens, run with the .env file, the key and the path;
\* unrenderable holds the page indices for which doc.Image fails
WaveDocument(n) ==
  [dotenv |-> TRUE, apiKey |-> TRUE, args |-> TRUE, exists |-> TRUE,
   opens |-> TRUE, clientFails |-> FALSE, pages |-> n, unrenderable |-> {}]

\* documents of up to MaxWavePages pages
MaxWavePages == 2

\* a short document, one of a full wave and one page more, or one of a page
\* more than is processed; the second page cannot be rendered and the
\* request of the first page may fail
InitWave ==
  \E e \in {[WaveDocument(n) EXCEPT !.unrenderable = {1}] :
              n \in (0..MaxWavePages) \cup {batchSize + 1, SrcMaxPages + 1}}
            \cup {[WaveDocument(1) EXCEPT !.exists = FALSE]} :
    InitAt("open", SrcChunkSize, e, SrcMaxConcurrent, SrcMaxRetries, DefaultModel,
           SrcModelPricing, {0}, <<>>)

\* the zero value of PageResult
ZeroPageResult == [PageNumber |-> 0, Summary |-> NoText, Error |-> NoErr]

\* what the wave actions leave alone of the other programs
waveFrame == <<maxConcurrent, maxRetries, chunkSize, config, ModelPricing, chunks,
               flaky, env, script, semaphore, locals, waits, fullResult,
               folds, jsonFile, summaryVars, events>>

\* a program that takes every page of the document
ProcessedPages_All(n) == n

\* maxPages := 10; if totalPages < maxPages { maxPages = totalPages }
ProcessedPages(n) == IF n < SrcMaxPages THEN n ELSE SrcMaxPages

\* main up to the loop over the waves
WaveSetup ==
  /\ mainPC = "open"
  /\ IF ~(env.dotenv /\ env.apiKey /\ env.args /\ env.exists /\ env.opens)
        \/ env.clientFails
     THEN /\ mainPC' = "fatal"
          /\ exitCode' = <<1>>
          /\ UNCHANGED <<totalPages, maxPages, results, writers, pc, pageResult,
                         trace>>
     ELSE LET n == ProcessedPages(env.pages)
          IN  /\ mainPC' = "batch"
              /\ totalPages' = env.pages
              /\ maxPages' = n
              /\ results' = [k \in 1..n |-> ZeroPageResult]
              /\ writers' = [k \in 1..n |-> <<>>]
              /\ pc' = [x \in 0..(n - 1) |-> "idle"]
              /\ pageResult' = [x \in 0..(n - 1) |-> ZeroPageResult]
              /\ trace' = [x \in 0..(n - 1) |-> <<>>]
              /\ UNCHANGED exitCode
  /\ UNCHANGED <<waveFrame, i, mu, wg, batchStart, batchEnd>>

\* the test of "for batchStart := 0; batchStart < maxPages; ..." and the
\* bounds of the wave; after the last wave the results are printed and main
\* returns
WaveBatch ==
  /\ mainPC = "batch"
  /\ IF batchStart < maxPages
     THEN /\ batchEnd' = Min(batchStart + batchSize, maxPages)
          /\ i' = batchStart
          /\ mainPC' = "go"
          /\ UNCHANGED exitCode
     ELSE /\ mainPC' = "done"
          /\ exitCode' = <<0>>
          /\ UNCHANGED <<batchEnd, i>>
  /\ UNCHANGED <<waveFrame, trace, totalPages, maxPages, results, writers, pc, pageResult,
                 mu, wg, batchStart>>

\* one iteration of "for i := batchStart; i < batchEnd; i++": wg.Add(1); go
WaveSpawn ==
  /\ mainPC = "go"
  /\ i < batchEnd
  /\ wg' = wg + 1
  /\ pc' = [pc EXCEPT ![i] = "image"]
  /\ i' = i + 1
  /\ UNCHANGED <<waveFrame, trace, totalPages, maxPages, results, writers, pageResult,
                 mu, mainPC, exitCode, batchStart, batchEnd>>

\* a join that does not wait for the goroutines of the wave
WaveJoined_NoWait == TRUE

\* wg.Wait() of the wave can return
WaveJoined == CounterZero

\* the inner loop is over and wg.Wait() returns; batchStart += batchSize
WaveWait ==
  /\ mainPC = "go"
  /\ i >= batchEnd
  /\ WaveJoined
  /\ batchStart' = batchStart + batchSize
  /\ mainPC' = "batch"
  /\ UNCHANGED <<waveFrame, trace, totalPages, maxPages, results, writers, pc, pageResult,
                 mu, wg, i, exitCode, batchEnd>>

\* pageResult.PageNumber = pageNum; doc.Image and png.Encode: on an error the
\* goroutine records it and goes to the write, else it calls the Gemini API
WaveImage(pageIndex) ==
  /\ mainPC \in {"go", "batch"}
  /\ pc[pageIndex] = "image"
  /\ IF pageIndex \in env.unrenderable
     THEN /\ \E e \in {"error rendering page: ", "error encoding image: "} :
               pageResult' = [pageResult EXCEPT ![pageIndex] =
                                [PageNumber |-> pageIndex + 1, Summary |-> NoText,
                                 Error |-> <<e>>]]
          /\ pc' = [pc EXCEPT ![pageIndex] = "lock"]
     ELSE /\ pageResult' = [pageResult EXCEPT ![pageIndex].PageNumber = pageIndex + 1]
          /\ pc' = [pc EXCEPT ![pageIndex] = "generate"]
  /\ UNCHANGED <<waveFrame, trace, totalPages, maxPages, results, writers, mu, wg, i,
                 mainPC, exitCode, batchStart, batchEnd>>

\* what GenerateContent can return for a page: a text, or for a page whose
\* request may fail also a rate-limit error or a server error
GenerateReturns(pageIndex) ==
  {[text |-> <<"summary of page ", ToString(pageIndex + 1)>>, err |-> NoErr]}
  \cup (IF pageIndex \in flaky
        THEN {[text |-> NoText, err |-> <<"Error ", "429", ", Status: RESOURCE_EXHAUSTED">>],
              [text |-> NoText, err |-> <<"Error ", "500", ", Status: INTERNAL">>]}
        ELSE {})

\* a goroutine that calls again when the error is a rate-limit error
WaveAfterCall_RetriesRateLimit(e) == IF IsRateLimit(e) THEN "generate" ELSE "lock"

\* where the goroutine goes after GenerateContent has returned e: to the
\* write of its result, whatever e is
WaveAfterCall(e) == "lock"

\* client.Models.GenerateContent returns a text or an error
WaveGenerate(pageIndex) ==
  /\ mainPC \in {"go", "batch"}
  /\ pc[pageIndex] = "generate"
  /\ \E r \in GenerateReturns(pageIndex) :
       /\ trace' = [trace EXCEPT ![pageIndex] = Append(@, r)]
       /\ pageResult' = [pageResult EXCEPT ![pageIndex] =
            IF r.err = NoErr THEN [@ EXCEPT !.Summary = r.text]
            ELSE [@ EXCEPT !.Error = <<"API error: ">> \o r.err]]
       /\ pc' = [pc EXCEPT ![pageIndex] = WaveAfterCall(r.err)]
  /\ UNCHANGED <<waveFrame, totalPages, maxPages, results, writers, mu, wg, i,
                 mainPC, exitCode, batchStart, batchEnd>>

\* mu.Lock()
WaveLock(pageIndex) ==
  /\ mainPC \in {"go", "batch"}
  /\ pc[pageIndex] = "lock"
  /\ Unlocked
  /\ mu' = TRUE
  /\ pc' = [pc EXCEPT ![pageIndex] = "write"]
  /\ UNCHANGED <<waveFrame, trace, totalPages, maxPages, results, writers, pageResult, wg,
                 i, mainPC, exitCode, batchStart, batchEnd>>

\* results[pageIndex] = pageResult; mu.Unlock()
WaveWrite(pageIndex) ==
  /\ mainPC \in {"go", "batch"}
  /\ pc[pageIndex] = "write"
  /\ results' = [results EXCEPT ![pageIndex + 1] = pageResult[pageIndex]]
  /\ writers' = [writers EXCEPT ![pageIndex + 1] = Append(@, pageIndex)]
  /\ mu' = FALSE
  /\ pc' = [pc EXCEPT ![pageIndex] = "exit"]
  /\ UNCHANGED <<waveFrame, trace, totalPages, maxPages, pageResult, wg, i, mainPC,
                 exitCode, batchStart, batchEnd>>

\* the deferred wg.Done()
WaveDone(pageIndex) ==
  /\ mainPC \in {"go", "batch"}
  /\ pc[pageIndex] = "exit"
  /\ wg' = wg - 1
  /\ pc' = [pc EXCEPT ![pageIndex] = "done"]
  /\ UNCHANGED <<waveFrame, trace, totalPages, maxPages, results, writers, pageResult, mu,
                 i, mainPC, exitCode, batchStart, batchEnd>>

NextWave ==
  \/ WaveSetup
  \/ WaveBatch
  \/ WaveSpawn
  \/ WaveWait
  \/ \E pageIndex \in DOMAIN pc : WaveImage(pageIndex)
  \/ \E pageIndex \in DOMAIN pc : WaveGenerate(pageIndex)
  \/ \E pageIndex \in DOMAIN pc : WaveLock(pageIndex)
  \/ \E pageIndex \in DOMAIN pc : WaveWrite(pageIndex)
  \/ \E pageIndex \in DOMAIN pc : WaveDone(pageIndex)

SpecWave == InitWave /\ [][NextWave]_vars

\* C29: in the wave form the page indices are taken in ascending order in
\* consecutive waves of at most batchSize = 5; a goroutine of a later wave
\* is started only when every goroutine of the waves before has written its
\* result and returned, so the goroutines that run are all of the current
\* wave and at most 5 calls are in flight
C29_WavesInSequence ==
  (mainPC \in {"batch", "go", "done"}) =>
    /\ batchStart % 5 = 0
    /\ mainPC = "go" =>
         /\ batchStart < maxPages
         /\ batchEnd = Min(batchStart + 5, maxPages)
         /\ i \in batchStart..batchEnd
         /\ \A x \in DOMAIN pc : pc[x] # "idle" <=> x < i
    /\ \A x \in DOMAIN pc :
         pc[x] \notin {"idle", "done"} => batchStart <= x /\ x < batchEnd
    /\ \A x, y \in DOMAIN pc :
         (x \div 5 < y \div 5 /\ pc[y] # "idle") =>
           /\ pc[x] = "done"
           /\ writers[x + 1] = <<x>>
           /\ results[x + 1] = pageResult[x]
    /\ Cardinality({x \in DOMAIN pc : pc[x] \notin {"idle", "done"}}) <= 5
    /\ Cardinality({x \in DOMAIN pc : pc[x] = "generate"}) <= 5

\* the second wave of a document of 11 pages, of which 10 are processed: the
\* five goroutines of the first wave have returned and the five of the
\* second are all inside the call
C29_Witness ==
  /\ maxPages = 10 /\ totalPages = 11
  /\ mainPC = "go" /\ batchStart = 5
  /\ \A x \in 0..4 : pc[x] = "done"
  /\ \A x \in 5..9 : pc[x] = "generate"

(***************************************************************************)
(* The two forms of the dispatcher side by side: the semaphore form        *)
(* (design-ant) and the wave form (approach).                              *)
(***************************************************************************)
SpecForms == (Init \/ InitWave) /\ [][Next \/ NextWave]_vars

\* the goroutines inside the region between mu.Lock() and mu.Unlock()
InWriteRegion == {x \in DOMAIN pc : pc[x] = "write"}

\* C27: the writes to the shared results are serialized: in the semaphore
\* form and in the wave form at most one goroutine is inside the write
\* region, the one that holds the mutex, although every goroutine writes
\* its own index
C27_WritesSerialized ==
  /\ Cardinality(InWriteRegion) <= 1
  /\ mu <=> InWriteRegion # {}
  /\ \A k \in DOMAIN writers : \A j \in 1..Len(writers[k]) : writers[k][j] = k - 1

\* in the wave form one goroutine is inside the write region and two others
\* of its wave are blocked on mu.Lock()
C27_Witness ==
  /\ mainPC = "go"
  /\ Cardinality(InWriteRegion) = 1
  /\ Cardinality({x \in DOMAIN pc : pc[x] = "lock"}) >= 2

\* C22: slot i of results is written only by the goroutine of unit i, in one
\* locked write region that it passes once, after its last attempt; before
\* that the slot holds the zero value; a write changes no other slot; at the
\* join every slot has been written once, by its own goroutine
C22_OneWritePerSlot ==
  /\ [](/\ DOMAIN writers = DOMAIN results
        /\ \A k \in DOMAIN results :
             /\ writers[k] = IF Written(k - 1) THEN <<k - 1>> ELSE <<>>
             /\ ~Written(k - 1) => results[k] \in {ZeroChunkAnalysis, ZeroPageResult}
             /\ (Written(k - 1) /\ k - 1 \in Indices) =>
                  /\ LoopLeft(k - 1)
                  /\ results[k].ChunkNumber = k
                  /\ results[k].Error = LastReturn(k - 1).err
             /\ (Written(k - 1) /\ k - 1 \notin Indices) =>
                  /\ results[k] = pageResult[k - 1]
                  /\ results[k].PageNumber = k
        /\ (Joined \/ mainPC = "done") =>
             \A k \in DOMAIN results : writers[k] = <<k - 1>>
        /\ mainPC = "batch" =>
             \A k \in 1..Min(batchStart, maxPages) : writers[k] = <<k - 1>>)
  /\ [][\A k \in DOMAIN results \cap DOMAIN results' :
          results'[k] # results[k] =>
            /\ pc[k - 1] = "write" /\ pc'[k - 1] # "write"
            /\ mu /\ ~mu'
            /\ writers[k] = <<>> /\ writers'[k] = <<k - 1>>
            /\ \A j \in DOMAIN results \ {k} : results'[j] = results[j]]_vars

\* the join of a batch of the semaphore form with more units than slots: one
\* unit was retried and every slot was written once, by its own goroutine
C22_Witness ==
  /\ Joined
  /\ Len(chunks) > maxConcurrent
  /\ \E index \in Indices : Len(trace[index]) > 1
  /\ \A k \in DOMAIN results : writers[k] = <<k - 1>> /\ results[k].ChunkNumber = k

\* C31: the progress lines of a unit are ordered: one "started" after the
\* slot is acquired and before the first call, one "retry" per backoff wait,
\* and one terminal line after the last attempt, "succeeded" exactly when no
\* error is recorded for the unit and "failed" otherwise
C31_ProgressEvents ==
  \A index \in Indices :
    LET retries  == [j \in 1..Len(waits[index]) |-> "retry"]
        terminal == IF results[index + 1].Error = NoErr THEN "succeeded" ELSE "failed"
    IN  /\ events[index] =
             (IF pc[index] \in {"idle", "acquire"} THEN <<>> ELSE <<"started">>)
               \o retries
               \o (IF Written(index) THEN <<terminal>> ELSE <<>>)
        /\ Len(trace[index]) >= 1 => events[index][1] = "started"
        /\ pc[index] \in {"idle", "acquire"} => trace[index] = <<>>
        /\ pc[index] = "sleep" => events[index][Len(events[index])] = "retry"
        /\ Cardinality({j \in 1..Len(events[index]) :
                          events[index][j] \in {"succeeded", "failed"}})
             = IF Written(index) THEN 1 ELSE 0

\* both endings: a unit that started, was retried twice and failed, and a
\* unit that started and succeeded at once
C31_Witness ==
  /\ \E index \in Indices : events[index] = <<"started", "retry", "retry", "failed">>
  /\ \E index \in Indices : events[index] = <<"started", "succeeded">>

\* C32: once wg.Wait() has returned no entry of results is modified again:
\* the totals and the report only read them, and the chunks of the report
\* are the results as the goroutines wrote them, each from its own locals
C32_ResultsFrozenAfterJoin ==
  /\ [][Joined => (Joined' /\ results' = results /\ writers' = writers)]_vars
  /\ [](Joined =>
          /\ \A index \in Indices : results[index + 1] = NewChunkAnalysis(index)
          /\ fullResult.built =>
               /\ fullResult.Chunks = results
               /\ fullResult.TotalChunks = Len(results))

\* a report built twice over results of which one holds an error
C32_Witness ==
  /\ fullResult.built
  /\ folds = MaxFolds
  /\ Len(results) >= 2
  /\ fullResult.Chunks = results
  /\ \E k \in 1..Len(results) : results[k].Error # NoErr
  /\ \E k \in 1..Len(results) : results[k].Error = NoErr

\* C33: when k rate-limit errors (1 <= k < maxRetries) are followed by an
\* error of another kind, the loop stops at once: that call is the last one
\* (k + 1 calls), no wait follows it (k waits), and its error is the one
\* recorded
C33_PermanentAfterTransient ==
  \A index \in Indices : \A n \in 2..Len(trace[index]) :
    (TransientPrefix(index, n - 1) /\ IsPermanent(trace[index][n].err)) =>
      /\ n - 1 < maxRetries
      /\ Len(trace[index]) = n
      /\ Len(waits[index]) = n - 1
      /\ pc[index] \notin {"call", "sleep"}
      /\ attempt[index] = n - 1
      /\ Written(index) =>
           /\ results[index + 1].Error = trace[index][n].err
           /\ results[index + 1].InputTokens = 0

\* a unit refused once for the rate limit, then failing for good on its
\* second call, recorded with that error after one wait
C33_Witness ==
  \E index \in Indices :
    /\ Written(index)
    /\ Len(trace[index]) = 2
    /\ IsTransient(trace[index][1].err)
    /\ IsPermanent(trace[index][2].err)
    /\ results[index + 1].Error = trace[index][2].err
    /\ waits[index] = <<2>>

(***************************************************************************)
(* The retry loop under a harness that chooses maxRetries.                 *)
(***************************************************************************)
MaxAttempts == 3

\* the dispatcher as written but for maxRetries, from 1 to MaxAttempts; the
\* requests of the last page may fail
InitRetries ==
  \E pages \in 0..MaxFairPages, retries \in 1..MaxAttempts :
    InitWith(pages, SrcMaxConcurrent, retries, DefaultModel, SrcModelPricing,
             {pages - 1} \cap (0..(pages - 1)))

SpecRetries == InitRetries /\ [][Next]_vars

\* C34: whatever the attempts return, analyzeChunk is called at least once
\* and at most maxRetries times for every unit, and the unit sleeps once
\* less than it calls, so at most maxRetries - 1 times; with maxRetries = 1
\* there is one call and no wait, even after a rate-limit error
C34_CallsAndWaits ==
  \A index \in Indices :
    /\ Len(trace[index]) <= maxRetries
    /\ Len(waits[index]) <= maxRetries - 1
    /\ pc[index] = "call" =>
         Len(waits[index]) = Len(trace[index]) /\ Len(trace[index]) < maxRetries
    /\ pc[index] = "sleep" =>
         Len(waits[index]) = Len(trace[index]) /\ Len(trace[index]) < maxRetries
    /\ pc[index] \in {"lock", "write", "release", "exit", "done"} =>
         /\ Len(trace[index]) >= 1
         /\ Len(waits[index]) = Len(trace[index]) - 1
    /\ maxRetries = 1 =>
         /\ waits[index] = <<>>
         /\ Len(trace[index]) <= 1
         /\ pc[index] # "sleep"

\* with maxRetries = 1 a unit is recorded with the rate-limit error of its
\* only call, without having slept
C34_Witness ==
  /\ maxRetries = 1
  /\ \E index \in Indices :
       /\ Written(index)
       /\ Len(trace[index]) = 1
       /\ IsTransient(results[index + 1].Error)
       /\ waits[index] = <<>>

\* C35: the dispatcher does not deadlock: while some goroutine has not
\* returned, some goroutine can take a step; a full gate has a holder that
\* can go on, a locked mutex has its holder in the write region, which never
\* blocks, and main is never blocked in the range loop, which does not
\* touch the gate
C35_NoDeadlock ==
  LET canRun(index) ==
        \/ pc[index] = "acquire" /\ CanSend
        \/ pc[index] = "lock" /\ Unlocked
        \/ pc[index] \in {"call", "sleep", "write", "release", "exit"}
  IN  /\ (\E index \in Indices : pc[index] \notin {"idle", "done"}) =>
           \E index \in Indices : canRun(index)
      /\ (\E index \in Indices : pc[index] = "acquire" /\ ~CanSend) =>
           \E index \in Holding : canRun(index)
      /\ (\E index \in Indices : pc[index] = "lock" /\ ~Unlocked) =>
           \E index \in Holding : pc[index] = "write"
      /\ mainPC = "spawn" =>
           /\ i <= Len(chunks)
           /\ \A index \in Indices : pc[index] = "idle" <=> index >= i
      /\ mainPC \in {"wait", "fold", "done"} =>
           \A index \in Indices : pc[index] # "idle"

\* a goroutine blocked on the full gate while the holder of a slot is in the
\* write region
C35_Witness ==
  /\ semaphore = maxConcurrent
  /\ \E index \in Indices : pc[index] = "acquire"
  /\ \E index \in Indices : pc[index] = "write"

(***************************************************************************)
(* The wave form has no retry loop.                                        *)
(***************************************************************************)
\* C36: in the wave form GenerateContent is called at most once for a page,
\* and not at all for a page that could not be rendered or encoded; an error
\* of the call, a rate-limit error included, is what the goroutine records
\* and writes as the page's error, with no summary
C36_WaveCallsOnce ==
  (mainPC \in {"batch", "go", "done"}) =>
    \A x \in DOMAIN pc :
      /\ Len(trace[x]) <= 1
      /\ x \in env.unrenderable => trace[x] = <<>>
      /\ pc[x] \in {"idle", "image", "generate"} => trace[x] = <<>>
      /\ (pc[x] \in {"lock", "write", "exit", "done"} /\ x \notin env.unrenderable) =>
           /\ Len(trace[x]) = 1
           /\ trace[x][1].err # NoErr =>
                /\ pageResult[x].Error = <<"API error: ">> \o trace[x][1].err
                /\ pageResult[x].Summary = NoText
           /\ trace[x][1].err = NoErr =>
                /\ pageResult[x].Error = NoErr
                /\ pageResult[x].Summary = trace[x][1].text
      /\ pc[x] \in {"exit", "done"} => results[x + 1] = pageResult[x]

\* the first page's only call returned a rate-limit error, which is its
\* written result, and the second page, which could not be rendered, is
\* written without a call
C36_Witness ==
  /\ mainPC = "done" /\ maxPages = 2
  /\ Len(trace[0]) = 1 /\ IsRateLimit(trace[0][1].err)
  /\ IsRateLimit(results[1].Error)
  /\ trace[1] = <<>> /\ results[2].Error # NoErr

\* C37: the wave form processes min(totalPages, 10) pages: results has that
\* many entries, the goroutines are those of the page indices below it, the
\* loops never go past it, and the results printed at the end are those of
\* pages 1 to min(totalPages, 10) in that order
C37_FirstTenPages ==
  (mainPC \in {"batch", "go", "done"}) =>
    LET units == IF totalPages < 10 THEN totalPages ELSE 10
    IN  /\ maxPages = units
        /\ Len(results) = units
        /\ DOMAIN pc = 0..(units - 1)
        /\ i <= units /\ batchEnd <= units
        /\ \A k \in 1..Len(results) : results[k].PageNumber \in {0, k}
        /\ \A k \in 1..Len(writers) : \A n \in 1..Len(writers[k]) :
             writers[k][n] = k - 1
        /\ mainPC = "done" =>
             /\ batchStart >= units
             /\ \A k \in 1..Len(results) : results[k].PageNumber = k

\* a document of 11 pages whose first 10 pages have been processed and
\* printed
C37_Witness ==
  /\ mainPC = "done"
  /\ totalPages = 11
  /\ Len(results) = 10
  /\ results[10].PageNumber = 10

(***************************************************************************)
(* The page-summary program: the prompt and the join.                      *)
(***************************************************************************)
\* C38: in the page-summary program the prompt is built and the one call is
\* made only when every extraction goroutine has written its page and
\* returned; the prompt holds the pages whose trimmed text is not empty, each
\* with that text, in ascending page number; and a page without text never
\* ends the run: the process fails only in the set-up or on the API call
C38_PromptAfterJoin ==
  /\ Len(requests) <= 1
  /\ (mainPC = "prompt" \/ requests # <<>>) =>
       \A x \in DOMAIN pc :
         /\ pc[x] = "done"
         /\ pageSlice[x + 1] = [PageNumber |-> x + 1, Text |-> TrimSpace(text[x])]
  /\ requests # <<>> =>
       LET listed == requests[1]
       IN  /\ \A k \in 1..(Len(listed) - 1) :
                listed[k].PageNumber < listed[k + 1].PageNumber
           /\ \A k \in 1..Len(listed) :
                /\ listed[k].PageNumber \in 1..totalPages
                /\ listed[k].Text = TrimSpace(text[listed[k].PageNumber - 1])
                /\ listed[k].Text # NoText
           /\ \A x \in DOMAIN pc :
                TrimSpace(text[x]) # NoText =>
                  \E k \in 1..Len(listed) : listed[k].PageNumber = x + 1
  /\ (mainPC = "fatal" /\ env.exists) => requests # <<>>
  /\ (mainPC = "wait" /\ CounterZero) => \A x \in DOMAIN pc : pc[x] = "done"

\* the call has been answered for a document of three pages of which the
\* second has no text: the prompt lists pages 1 and 3
C38_Witness ==
  /\ mainPC = "done"
  /\ totalPages = 3
  /\ Len(requests) = 1
  /\ Len(requests[1]) = 2
  /\ requests[1][1].PageNumber = 1
  /\ requests[1][2].PageNumber = 3
  /\ text[1] = NoText

====
